---- MODULE Spec2Model ----
(***************************************************************************)
(* State/config manager of the VLESS control plane                         *)
(* (vpn-project/internal/vpnserver/manager.go).                            *)
(*                                                                         *)
(* The model follows Manager: one sync.Mutex (mu), the handle serverCmd,   *)
(* the files under StateDir (clients/clients.json, server.json,            *)
(* clients/<id>.json, tls/server.crt, tls/server.key and their .tmp        *)
(* siblings), the spawned sing-box processes and one exit-reaper goroutine *)
(* per spawned process.  Each public method is a sequence of steps taken   *)
(* by a calling goroutine; the steps of loadClientsLocked,                 *)
(* createClientLocked, rewriteServerConfigLocked and writeSecretFile are   *)
(* shared by the methods that call them.                                   *)
(*                                                                         *)
(* Strings that the code inspects character by character (client names,    *)
(* ids, file names) are sequences of one-character strings.                *)
(***************************************************************************)
EXTENDS Integers, Sequences, FiniteSets, TLC

(***************************************************************************)
(* Bounds of the model.                                                    *)
(***************************************************************************)
\* Public operations begun in one behaviour.
MaxOps == 2
\* Injected I/O and spawn failures in one behaviour.
MaxFaults == 1

\* Goroutines serving requests (one per inbound HTTP request), in the order
\* in which idle ones take the next request.
CallerOrder == <<"h1", "h2">>
Callers == {CallerOrder[i] : i \in DOMAIN CallerOrder}

(***************************************************************************)
(* Program constants.                                                      *)
(***************************************************************************)
\* allocateClientIDLocked: for i := 2; i < 10000; i++
AllocLimit == 10000

(***************************************************************************)
(* Strings.                                                                *)
(***************************************************************************)
S_client == <<"c","l","i","e","n","t">>
S_clients == <<"c","l","i","e","n","t","s">>
S_default_client == <<"d","e","f","a","u","l","t","-","c","l","i","e","n","t">>
S_json == <<".","j","s","o","n">>
S_tmp == <<".","t","m","p">>
S_server == <<"s","e","r","v","e","r">>
S_crt == <<".","c","r","t">>
S_key == <<".","k","e","y">>

UpperAlpha == <<"A","B","C","D","E","F","G","H","I","J","K","L","M",
                "N","O","P","Q","R","S","T","U","V","W","X","Y","Z">>
LowerAlpha == <<"a","b","c","d","e","f","g","h","i","j","k","l","m",
                "n","o","p","q","r","s","t","u","v","w","x","y","z">>
Digits == <<"0","1","2","3","4","5","6","7","8","9">>

Range(s) == {s[i] : i \in DOMAIN s}

\* unicode.IsSpace for the characters the model uses
IsSpace(c) == c \in {" ", "\t", "\n"}

\* letters outside ASCII that the model uses: upper case and lower case
UpperOther == <<"É">>
LowerOther == <<"é">>

\* strings.ToLower, one character
ToLowerChar(c) ==
    IF c \in Range(UpperAlpha)
    THEN LowerAlpha[CHOOSE i \in DOMAIN UpperAlpha : UpperAlpha[i] = c]
    ELSE IF c \in Range(UpperOther)
    THEN LowerOther[CHOOSE i \in DOMAIN UpperOther : UpperOther[i] = c]
    ELSE c

ToLower(s) == [i \in DOMAIN s |-> ToLowerChar(s[i])]

RECURSIVE TrimLeft(_, _)
TrimLeft(s, cut) ==
    IF s # <<>> /\ Head(s) \in cut THEN TrimLeft(Tail(s), cut) ELSE s

RECURSIVE TrimRight(_, _)
TrimRight(s, cut) ==
    IF s # <<>> /\ s[Len(s)] \in cut
    THEN TrimRight(SubSeq(s, 1, Len(s) - 1), cut)
    ELSE s

\* strings.Trim(s, cutset)
Trim(s, cut) == TrimRight(TrimLeft(s, cut), cut)

\* strings.TrimSpace
TrimSpace(s) == Trim(s, {" ", "\t", "\n"})

\* the characters clientIDRe = [^a-z0-9._-]+ does not match
IDChars == Range(LowerAlpha) \cup Range(Digits) \cup {".", "_", "-"}

\* clientIDRe.ReplaceAllString(n, "-"): every maximal run of characters
\* outside IDChars becomes one "-"
RECURSIVE ReplaceRuns(_, _)
ReplaceRuns(s, inRun) ==
    IF s = <<>> THEN <<>>
    ELSE IF Head(s) \in IDChars
         THEN <<Head(s)>> \o ReplaceRuns(Tail(s), FALSE)
         ELSE IF inRun THEN ReplaceRuns(Tail(s), TRUE)
              ELSE <<"-">> \o ReplaceRuns(Tail(s), TRUE)


\* (a slug that is not checked for being empty after the trim)
sanitizeClientID_Unchecked(name) ==
    LET n0 == ToLower(TrimSpace(name))
        n1 == IF n0 = <<>> THEN S_client ELSE n0
        n2 == ReplaceRuns(n1, FALSE)
    IN  Trim(n2, {"-", "_", "."})

\* sanitizeClientID, lines 710-722: one statement after the other, each on
\* the value the statement before it has left in name
sanitizeClientID(name) ==
    CHOOSE id \in
        { IF n3 = <<>> THEN S_client ELSE n3 :
            n3 \in { Trim(n2, {"-", "_", "."}) :
                n2 \in { ReplaceRuns(IF n0 = <<>> THEN S_client ELSE n0, FALSE) :
                    n0 \in { ToLower(TrimSpace(name)) } } } } : TRUE

\* strconv.Itoa / fmt %d of a non-negative integer
RECURSIVE Itoa(_)
Itoa(n) ==
    IF n < 10 THEN <<Digits[n + 1]>>
    ELSE Itoa(n \div 10) \o <<Digits[(n % 10) + 1]>>

(***************************************************************************)
(* Paths (filepath.Join of a directory under StateDir and a file name).    *)
(***************************************************************************)
Path(dir, file) == [dir |-> dir, file |-> file]
NoPath == [dir |-> "", file |-> <<>>]

statePath == Path("clients", S_clients \o S_json)
serverConfigPath == Path("state", S_server \o S_json)
TLSCertPath == Path("tls", S_server \o S_crt)
TLSKeyPath == Path("tls", S_server \o S_key)

\* filepath.Join(m.clientsDir, id+".json")
ClientConfigPath(id) == Path("clients", id \o S_json)

\* writeSecretFile: tmpPath := path + ".tmp"
TmpPath(p) == Path(p.dir, p.file \o S_tmp)

(***************************************************************************)
(* Client records and the documents derived from them.                     *)
(* Blank values: <<>> for ID and Name, 0 for UUID and Address (""),        *)
(* NoPath for ConfigPath, 0 for CreatedAt (the zero time.Time).            *)
(***************************************************************************)
Client(id, name, uuid, addr, path, created) ==
    [ID |-> id, Name |-> name, UUID |-> uuid, Address |-> addr,
     ConfigPath |-> path, CreatedAt |-> created]

\* time.Now().UTC(): one instant, different from the zero time
Now == 1

\* byte order of the characters of an id, for list[i].ID < list[j].ID
CharOrder == <<"-", ".">> \o Digits \o <<"_">> \o LowerAlpha

Ord(c) == IF c \in Range(CharOrder)
          THEN CHOOSE i \in DOMAIN CharOrder : CharOrder[i] = c
          ELSE 0

RECURSIVE StrLess(_, _)
StrLess(a, b) ==
    IF b = <<>> THEN FALSE
    ELSE IF a = <<>> THEN TRUE
    ELSE IF Head(a) = Head(b) THEN StrLess(Tail(a), Tail(b))
    ELSE Ord(Head(a)) < Ord(Head(b))

\* sort.Slice(list, func(i, j) bool { return list[i].ID < list[j].ID })
RECURSIVE SortByID(_)
SortByID(cs) ==
    IF cs = {} THEN <<>>
    ELSE LET least == CHOOSE c \in cs : \A d \in cs : ~StrLess(d.ID, c.ID)
         IN  <<least>> \o SortByID(cs \ {least})

\* buildServerConfigMap: the inbound's user list, in the order given
buildServerConfigMap(list) ==
    [kind |-> "server",
     users |-> [i \in DOMAIN list |-> [name |-> list[i].Name, uuid |-> list[i].UUID]]]

\* buildClientConfigMap: the client document; the outbound carries c.UUID,
\* everything else comes from the static Config
buildClientConfigMap(c) == [kind |-> "clientdoc", uuid |-> c.UUID]

\* a string as a JSON string: quoted, with '"' and '\' escaped
RECURSIVE Escape(_)
Escape(s) ==
    IF s = <<>> THEN <<>>
    ELSE (IF Head(s) \in {"\"", "\\"} THEN <<"\\", Head(s)>> ELSE <<Head(s)>>)
         \o Escape(Tail(s))

JSONString(s) == <<"\"">> \o Escape(s) \o <<"\"">>

\* the string a JSON string stands for
RECURSIVE Unescape(_)
Unescape(j) ==
    IF j = <<>> THEN <<>>
    ELSE IF Head(j) = "\\" /\ Len(j) >= 2
         THEN <<j[2]>> \o Unescape(SubSeq(j, 3, Len(j)))
         ELSE <<Head(j)>> \o Unescape(Tail(j))

ParseString(j) == Unescape(SubSeq(j, 2, Len(j) - 1))

\* strconv.Atoi of a string of digits
RECURSIVE Atoi(_)
Atoi(s) ==
    IF s = <<>> THEN 0
    ELSE 10 * Atoi(SubSeq(s, 1, Len(s) - 1))
         + (CHOOSE d \in 0..9 : Digits[d + 1] = s[Len(s)])

\* time.Time as JSON: the text of the instant (of the zero time too)
TimeJSON(t) == JSONString(Itoa(t))
ParseTime(j) == Atoi(ParseString(j))

\* a path as JSON
PathJSON(p) == [dir |-> p.dir, file |-> JSONString(p.file)]
ParsePath(j) == Path(j.dir, ParseString(j.file))

\* the JSON object of a Client (lines 28-35): "address" has omitempty and is
\* left out when it is empty
ClientFields(c) ==
    {"id", "name", "uuid", "config_path", "created_at"}
    \cup (IF c.Address = 0 THEN {} ELSE {"address"})

ClientJSON(c) ==
    [f \in ClientFields(c) |->
        CASE f = "id" -> JSONString(c.ID)
          [] f = "name" -> JSONString(c.Name)
          [] f = "uuid" -> c.UUID
          [] f = "address" -> c.Address
          [] f = "config_path" -> PathJSON(c.ConfigPath)
          [] f = "created_at" -> TimeJSON(c.CreatedAt)]

\* json.Unmarshal into a Client: a field that is absent keeps its zero value
ParseClient(o) ==
    Client(ParseString(o["id"]), ParseString(o["name"]), o["uuid"],
           IF "address" \in DOMAIN o THEN o["address"] ELSE 0,
           ParsePath(o["config_path"]), ParseTime(o["created_at"]))

\* marshalPretty of the clients map
ClientsJSON(m) ==
    [kind |-> "clients", m |-> [id \in DOMAIN m |-> ClientJSON(m[id])]]

\* other contents a file can hold
NullJSON == [kind |-> "null"]
Garbage == [kind |-> "garbage"]
Blank == [kind |-> "blank"]
\* a file of white space
WhiteSpaceOnly == [kind |-> "text", bytes |-> <<" ", "\n">>]

\* (only the empty file counts as blank)
IsBlank_EmptyOnly(content) == content.kind = "blank"

\* len(strings.TrimSpace(string(raw))) == 0
IsBlank(content) ==
    \/ content.kind = "blank"
    \/ content.kind = "text" /\ TrimSpace(content.bytes) = <<>>
\* (no file at the path)
Missing == [kind |-> "missing"]
\* what os.WriteFile has put on disk before it returns: some strict prefix
Prefix == [kind |-> "prefix"]
CertPEM(n) == [kind |-> "cert", pair |-> n]
KeyPEM(n) == [kind |-> "key", pair |-> n]

\* map[string]Client{}
EmptyMap == [id \in {} |-> 0]


\* (a decoder that takes whatever it cannot read for an empty map)
Unmarshal_Lenient(content) ==
    CASE content.kind = "clients" ->
            [err |-> FALSE, isNil |-> FALSE,
             clients |-> [id \in DOMAIN content.m |-> ParseClient(content.m[id])]]
      [] content.kind = "null" ->
            [err |-> FALSE, isNil |-> TRUE, clients |-> EmptyMap]
      [] OTHER -> [err |-> FALSE, isNil |-> FALSE, clients |-> EmptyMap]

\* json.Unmarshal(raw, &clients) for clients map[string]Client: a JSON object
\* of client objects decodes; the literal null sets the map to nil (isNil);
\* the server and client documents hold arrays ("inbounds") where a Client is
\* expected and fail, like every content that is not JSON
Unmarshal(content) ==
    CASE content.kind = "clients" ->
            [err |-> FALSE, isNil |-> FALSE,
             clients |-> [id \in DOMAIN content.m |-> ParseClient(content.m[id])]]
      [] content.kind = "null" ->
            [err |-> FALSE, isNil |-> TRUE, clients |-> EmptyMap]
      [] OTHER -> [err |-> TRUE, isNil |-> TRUE, clients |-> EmptyMap]

Keys(m) == DOMAIN m

\* loadClientsLocked, lines 352-382: one record healed; u is the value
\* generateUUID returns if it is called
HealOne(id, c, u) ==
    LET cID == IF TrimSpace(c.ID) = <<>> THEN id ELSE c.ID
        cUUID == IF c.UUID = 0 THEN u ELSE c.UUID
    IN  Client(cID,
               IF TrimSpace(c.Name) = <<>> THEN id ELSE c.Name,
               cUUID,
               IF c.Address = 0 THEN cUUID ELSE c.Address,
               IF c.ConfigPath = NoPath THEN ClientConfigPath(cID)
               ELSE c.ConfigPath,
               IF c.CreatedAt = 0 THEN Now ELSE c.CreatedAt)

\* the records of m that need a fresh uuid, in the order the loop meets them
RECURSIVE SeqOfSet(_)
SeqOfSet(S) ==
    IF S = {} THEN <<>>
    ELSE LET x == CHOOSE y \in S : TRUE IN <<x>> \o SeqOfSet(S \ {x})

NeedUUID(m) == SeqOfSet({id \in Keys(m) : m[id].UUID = 0})

IndexOf(s, x) == CHOOSE i \in DOMAIN s : s[i] = x

\* loadClientsLocked, lines 351-382: the healed map; fresh uuids are
\* next+1, next+2, ...
Heal(m, next) ==
    LET need == NeedUUID(m)
    IN  [id \in Keys(m) |->
            HealOne(id, m[id],
                    IF m[id].UUID = 0 THEN next + IndexOf(need, id) ELSE 0)]


\* (a save that leaves the id of a record as it is)
Normalize_KeepID(m) ==
    [id \in Keys(m) |->
        IF m[id].ConfigPath = NoPath
        THEN [m[id] EXCEPT !.ConfigPath = ClientConfigPath(id)]
        ELSE m[id]]

\* saveClientsLocked, lines 394-401
Normalize(m) ==
    [id \in Keys(m) |->
        LET c == [m[id] EXCEPT !.ID = id]
        IN  IF c.ConfigPath = NoPath
            THEN [c EXCEPT !.ConfigPath = ClientConfigPath(id)]
            ELSE c]

\* fmt.Sprintf("%s-%d", base, i)
Candidate(base, i) == base \o <<"-">> \o Itoa(i)

\* allocateClientIDLocked, lines 702-708: the loop from i on returns the first
\* candidate base-i, base-(i+1), ... below the limit that is not a key; when
\* every one of them is a key, the id is base-<unix time>, returned unchecked
AllocFrom(base, i, taken, unix) ==
    LET free(j) == Candidate(base, j) \notin taken
    IN  IF \E j \in i..(AllocLimit - 1) : free(j)
        THEN Candidate(base, CHOOSE j \in i..(AllocLimit - 1) :
                                 free(j) /\ \A k \in i..(j - 1) : ~free(k))
        ELSE Candidate(base, unix)

allocateClientIDLocked(name, clients, unix) ==
    LET base == sanitizeClientID(name)
    IN  IF base \notin Keys(clients) THEN base
        ELSE AllocFrom(base, 2, Keys(clients), unix)

\* rewriteServerConfigLocked, lines 416-428: blank config paths and addresses
\* filled in before the documents are built
FillForRewrite(m) ==
    [id \in Keys(m) |->
        LET c == m[id]
            c1 == IF c.ConfigPath = NoPath
                  THEN [c EXCEPT !.ConfigPath = ClientConfigPath(id)] ELSE c
        IN  IF c1.Address = 0 THEN [c1 EXCEPT !.Address = c1.UUID] ELSE c1]

(***************************************************************************)
(* State.                                                                  *)
(***************************************************************************)
VARIABLES
    mu,         \* Manager.mu: TRUE while locked
    serverCmd,  \* Manager.serverCmd: 0 for nil, else the process it refers to
    fs,         \* the files: path -> content
    procs,      \* the sing-box processes spawned so far, with their reapers
    th,         \* the calling goroutines
    rnd,        \* values drawn from crypto/rand so far (uuids, key pairs)
    ops,        \* public operations begun
    faults,     \* failures injected
    last        \* what the operation that returned last returned

vars == <<mu, serverCmd, fs, procs, th, rnd, ops, faults, last>>

NoClient == Client(<<>>, <<>>, 0, 0, NoPath, 0)
\* no writeSecretFile under way; old is what the target held when one began
NoJob == [stage |-> "none", path |-> NoPath, content |-> Blank, old |-> Missing]
\* no write has failed
NoFailure == [path |-> NoPath, old |-> Missing]
\* what held when the method took the mutex
NoPre == [fs |-> EmptyMap, cmd |-> 0, nprocs |-> 0, killed |-> {}, faults |-> 0]

Idle ==
    [op |-> "none", arg |-> <<>>, todo |-> <<>>, held |-> FALSE,
     clients |-> EmptyMap, isNil |-> FALSE, job |-> NoJob, c |-> NoClient,
     raw |-> Blank, list |-> <<>>, changed |-> FALSE, running |-> FALSE,
     err |-> "none", failed |-> NoFailure, pre |-> NoPre, given |-> EmptyMap,
     keys |-> [upto |-> 0, more |-> {}]]

NoResult ==
    [op |-> "none", arg |-> <<>>, err |-> "none", c |-> NoClient, raw |-> Blank,
     running |-> FALSE, list |-> <<>>, cmd |-> 0, made |-> NoClient,
     failed |-> NoFailure, pre |-> NoPre]

Exists(p) == p \in DOMAIN fs

\* the file system with content c at path p
PutFile(f, p, c) == [q \in DOMAIN f \cup {p} |-> IF q = p THEN c ELSE f[q]]
\* the file system without path p
DropFile(f, p) == [q \in DOMAIN f \ {p} |-> f[q]]

\* (a running check that never sees the process)
interfaceRunningLocked_Never == FALSE

\* (a check that always finds the data plane running)
interfaceRunningLocked_Always == TRUE

\* interfaceRunningLocked: m.serverCmd != nil && m.serverCmd.Process != nil
\* (Process is set by the cmd.Start that precedes every assignment)
interfaceRunningLocked == serverCmd # 0

(***************************************************************************)
(* Inputs.                                                                 *)
(***************************************************************************)
\* names given to CreateClient: "clients" and " A" (which sanitizes to "a")
NameInputs == {S_clients, <<" ", "A">>}
\* ids given to GetClientConfig
IDInputs == {<<"a">>, <<"z">>}

\* a record as a hand-edited or older clients.json may hold it: only the
\* name is set
RawRecord == Client(<<>>, <<"A">>, 0, 0, NoPath, 0)

\* the uuid of a client document left by an earlier run
StaleUUID == 99

\* clients.json when the manager starts: missing, not JSON, the literal
\* null, or a map with one record to heal under the key "a"; with that map,
\* clients/a.json is missing or holds a document left by an earlier run
InitialStateFiles ==
    { EmptyMap,
      PutFile(EmptyMap, statePath, Garbage),
      PutFile(EmptyMap, statePath, NullJSON),
      PutFile(EmptyMap, statePath, ClientsJSON([id \in {<<"a">>} |-> RawRecord])),
      PutFile(PutFile(EmptyMap, statePath,
                      ClientsJSON([id \in {<<"a">>} |-> RawRecord])),
              ClientConfigPath(<<"a">>),
              buildClientConfigMap([RawRecord EXCEPT !.UUID = StaleUUID])) }

Init ==
    /\ mu = FALSE
    /\ serverCmd = 0
    /\ fs \in InitialStateFiles
    /\ procs = <<>>
    /\ th = [t \in Callers |-> Idle]
    /\ rnd = 0
    /\ ops = 0
    /\ faults = 0
    /\ last = NoResult

Program(op) ==
    CASE op = "InitState" -> <<"dirs", "tls", "load", "bootstrap", "rewrite", "ret">>
      [] op = "CreateClient" -> <<"load", "create", "ret">>
      [] op = "GetStatus" -> <<"load", "status", "statuslist">>
      [] op = "GetClientConfig" -> <<"load", "lookup", "ret">>
      [] op = "StartInterface" -> <<"load", "rewrite", "startcheck", "ret">>
      [] op = "StopInterface" -> <<"stop", "ret">>

Calls ==
    {[op |-> "InitState", arg |-> <<>>], [op |-> "GetStatus", arg |-> <<>>],
     [op |-> "StartInterface", arg |-> <<>>], [op |-> "StopInterface", arg |-> <<>>]}
    \cup {[op |-> "CreateClient", arg |-> n] : n \in NameInputs}
    \cup {[op |-> "GetClientConfig", arg |-> i] : i \in IDInputs}

\* the goroutine is at phase ph and no file write of its own is under way
At(t, ph) ==
    /\ th[t].todo # <<>>
    /\ Head(th[t].todo) = ph
    /\ th[t].job.stage = "none"

CanFail == faults < MaxFaults

\* an error return: the remaining phases are dropped, deferred Unlock is left
Fail(r, e) ==
    [r EXCEPT !.todo = <<"ret">>, !.err = e, !.job = NoJob,
              !.failed = [path |-> r.job.path, old |-> r.job.old]]

\* writeSecretFile begins: os.WriteFile has opened and truncated path+".tmp"
BeginWrite(r, p, content) ==
    [r EXCEPT !.job = [stage |-> "open", path |-> p, content |-> content,
                       old |-> IF p \in DOMAIN fs THEN fs[p] ELSE Missing]]

\* the processes stopInterfaceLocked has signalled and killed
Signalled == {p \in DOMAIN procs : procs[p].killed # "no"}

\* Request goroutines are interchangeable: the next request is served by the
\* first one that serves none
IdleCallers == {i \in DOMAIN CallerOrder : th[CallerOrder[i]].op = "none"}
FirstIdle ==
    IF IdleCallers = {} THEN "nobody"
    ELSE CallerOrder[CHOOSE i \in IdleCallers : \A j \in IdleCallers : i <= j]

\* (a Lock that does not wait)
MutexFree_NoWait == TRUE

\* sync.Mutex: Lock returns only when no goroutine holds the mutex
MutexFree == mu = FALSE

(***************************************************************************)
(* m.mu.Lock() at the head of a public method.                             *)
(***************************************************************************)
Lock(t, call) ==
    /\ t = FirstIdle
    /\ ops < MaxOps
    /\ MutexFree
    /\ mu' = TRUE
    /\ ops' = ops + 1
    /\ th' = [th EXCEPT ![t] =
                [Idle EXCEPT !.op = call.op, !.arg = call.arg,
                             !.todo = Program(call.op), !.held = TRUE,
                             !.pre = [fs |-> fs, cmd |-> serverCmd,
                                      nprocs |-> Len(procs),
                                      killed |-> Signalled,
                                      faults |-> faults]]]
    /\ last' = NoResult
    /\ UNCHANGED <<serverCmd, fs, procs, rnd, faults>>

(***************************************************************************)
(* writeSecretFile(path, content).                                         *)
(***************************************************************************)
\* (a write straight into the target, without the temp file)
StartWrite_InPlace(t, r, p, content) ==
    /\ th' = [th EXCEPT ![t] = BeginWrite(r, p, content)]
    /\ fs' = PutFile(fs, p, Prefix)

\* lines 824-828 entered: the goroutine r (with its write recorded) is inside
\* os.WriteFile(tmpPath, ...), which has created or truncated the file
StartWrite(t, r, p, content) ==
    /\ th' = [th EXCEPT ![t] = BeginWrite(r, p, content)]
    /\ fs' = PutFile(fs, TmpPath(p), Prefix)

\* lines 828-833: os.WriteFile returns with the whole content in the temp
\* file, os.Chmod succeeds
WriteFileDone(t) ==
    /\ th[t].job.stage = "open"
    /\ fs' = PutFile(fs, TmpPath(th[t].job.path), th[t].job.content)
    /\ th' = [th EXCEPT ![t].job.stage = "closed"]
    /\ UNCHANGED <<mu, serverCmd, procs, rnd, ops, faults, last>>

\* line 828-830: os.WriteFile fails (disk full): the temp file keeps what
\* was written, the caller gets the error
WriteFileFail(t) ==
    /\ th[t].job.stage = "open"
    /\ CanFail
    /\ faults' = faults + 1
    /\ th' = [th EXCEPT ![t] = Fail(th[t], "io")]
    /\ UNCHANGED <<mu, serverCmd, fs, procs, rnd, ops, last>>

\* the file system after os.Rename(tmpPath, path)
RenameOver(f, p, content) == PutFile(DropFile(f, TmpPath(p)), p, content)

\* line 834: os.Rename(tmpPath, path)
Rename(t) ==
    /\ th[t].job.stage = "closed"
    /\ fs' = RenameOver(fs, th[t].job.path, th[t].job.content)
    /\ th' = [th EXCEPT ![t].job = NoJob]
    /\ UNCHANGED <<mu, serverCmd, procs, rnd, ops, faults, last>>

\* lines 831-834: os.Chmod or os.Rename fails
RenameFail(t) ==
    /\ th[t].job.stage = "closed"
    /\ CanFail
    /\ faults' = faults + 1
    /\ th' = [th EXCEPT ![t] = Fail(th[t], "io")]
    /\ UNCHANGED <<mu, serverCmd, fs, procs, rnd, ops, last>>


\* (a load that never finds anything changed)
Changed_Never(loaded, healed) == FALSE

\* loadClientsLocked, lines 353-380: the tests of the loop, one of which
\* holds for a record with a blank id, name, uuid, address or config path or
\* a zero creation time
NeedsHeal(c) ==
    \/ TrimSpace(c.ID) = <<>> \/ TrimSpace(c.Name) = <<>>
    \/ c.UUID = 0 \/ c.Address = 0
    \/ c.ConfigPath = NoPath \/ c.CreatedAt = 0

\* loadClientsLocked, lines 351-384: changed, true when one of the tests of
\* the loop held for a record, whether or not the assignment that follows
\* it gave the field another value (the key of a record can be blank too)
Changed(loaded, healed) == \E id \in Keys(loaded) : NeedsHeal(loaded[id])

(***************************************************************************)
(* loadClientsLocked.                                                      *)
(***************************************************************************)
Load(t) ==
    /\ At(t, "load")
    /\ \E r \in {[th[t] EXCEPT !.todo = Tail(@)]} :
           IF ~Exists(statePath) \/ IsBlank(fs[statePath])
           THEN /\ th' = [th EXCEPT ![t] =
                            [r EXCEPT !.clients = EmptyMap, !.isNil = FALSE]]
                /\ UNCHANGED <<fs, rnd>>
           ELSE \E u \in {Unmarshal(fs[statePath])} :
                \E healed \in {Heal(u.clients, rnd)} :
                \E r2 \in {[r EXCEPT !.clients = healed, !.isNil = u.isNil]} :
                    IF u.err
                    THEN /\ th' = [th EXCEPT ![t] = Fail(r, "parse")]
                         /\ UNCHANGED <<fs, rnd>>
                    ELSE /\ rnd' = rnd + Len(NeedUUID(u.clients))
                         /\ IF Changed(u.clients, healed)
                            THEN \E content \in {ClientsJSON(Normalize(healed))} :
                                     StartWrite(t, r2, statePath, content)
                            ELSE /\ th' = [th EXCEPT ![t] = r2]
                                 /\ UNCHANGED fs
    /\ UNCHANGED <<mu, serverCmd, procs, ops, faults, last>>

\* line 336-341: os.ReadFile fails with an error other than ErrNotExist
LoadReadFail(t) ==
    /\ At(t, "load")
    /\ Exists(statePath)
    /\ CanFail
    /\ faults' = faults + 1
    /\ th' = [th EXCEPT ![t] = Fail(th[t], "read")]
    /\ UNCHANGED <<mu, serverCmd, fs, procs, rnd, ops, last>>

(***************************************************************************)
(* createClientLocked.                                                     *)
(***************************************************************************)
\* lines 294-311: the new record
NewClient(name, clients, uuid) ==
    LET id == allocateClientIDLocked(name, clients, Now)
        nm == TrimSpace(name)
    IN  Client(id, IF nm = <<>> THEN id ELSE nm, uuid, uuid,
               ClientConfigPath(id), Now)

\* clients[c.ID] = c
Insert(m, c) == [id \in DOMAIN m \cup {c.ID} |-> IF id = c.ID THEN c ELSE m[id]]

\* (a create that cycles the data plane before it rewrites the documents)
Create_ReloadFirst(t) ==
    /\ At(t, "create")
    /\ \E c \in {NewClient(th[t].arg, th[t].clients, rnd + 1)} :
       \E m \in {Insert(th[t].clients, c)} :
       \E content \in {ClientsJSON(Normalize(m))} :
           IF th[t].isNil
           THEN /\ th' = [th EXCEPT ![t] = Fail(th[t], "panic")]
                /\ rnd' = rnd + 1
                /\ UNCHANGED fs
           ELSE /\ rnd' = rnd + 1
                /\ StartWrite(t, [th[t] EXCEPT !.c = c, !.clients = m,
                                   !.todo = <<"reload", "rewrite", "readcfg">>
                                            \o Tail(@)],
                              statePath, content)
    /\ UNCHANGED <<mu, serverCmd, procs, ops, faults, last>>

\* lines 294-316: the record is built and put in the map (a nil map panics
\* at line 313), saveClientsLocked begins
Create(t) ==
    /\ At(t, "create")
    /\ \E c \in {NewClient(th[t].arg, th[t].clients, rnd + 1)} :
       \E m \in {Insert(th[t].clients, c)} :
       \E content \in {ClientsJSON(Normalize(m))} :
           IF th[t].isNil
           THEN /\ th' = [th EXCEPT ![t] = Fail(th[t], "panic")]
                /\ rnd' = rnd + 1
                /\ UNCHANGED fs
           ELSE /\ rnd' = rnd + 1
                /\ StartWrite(t, [th[t] EXCEPT !.c = c, !.clients = m,
                                   !.todo = <<"rewrite", "reload", "readcfg">>
                                            \o Tail(@)],
                              statePath, content)
    /\ UNCHANGED <<mu, serverCmd, procs, ops, faults, last>>

(***************************************************************************)
(* rewriteServerConfigLocked.                                              *)
(***************************************************************************)
\* the values of the map
Values(m) == {m[id] : id \in DOMAIN m}

\* lines 414-440: the list is built and sorted, server.json is being written
Rewrite(t) ==
    /\ At(t, "rewrite")
    /\ LET r == th[t]
           filled == FillForRewrite(r.clients)
           list == SortByID(Values(filled))
       IN  StartWrite(t, [r EXCEPT !.clients = filled, !.list = list,
                                   !.changed = (filled # r.clients),
                                   !.todo = <<"docs">> \o Tail(@)],
                      serverConfigPath, buildServerConfigMap(list))
    /\ UNCHANGED <<mu, serverCmd, procs, rnd, ops, faults, last>>

\* lines 442-453: one writeClientConfigLocked per record of the list, then
\* saveClientsLocked if a record was filled in
Docs(t) ==
    /\ At(t, "docs")
    /\ LET r == th[t]
       IN  IF r.list # <<>>
           THEN StartWrite(t, [r EXCEPT !.list = Tail(@)],
                           Head(r.list).ConfigPath,
                           buildClientConfigMap(Head(r.list)))
           ELSE IF r.changed
           THEN StartWrite(t, [r EXCEPT !.todo = Tail(@)], statePath,
                           ClientsJSON(Normalize(r.clients)))
           ELSE /\ th' = [th EXCEPT ![t].todo = Tail(@)]
                /\ UNCHANGED fs
    /\ UNCHANGED <<mu, serverCmd, procs, rnd, ops, faults, last>>

(***************************************************************************)
(* The process supervisor: startInterfaceLocked, stopInterfaceLocked and   *)
(* the reaper goroutine.                                                   *)
(***************************************************************************)
\* the content of a file
Content(f, p) == IF p \in DOMAIN f THEN f[p] ELSE Missing

\* exec.Command(m.cfg.SingBoxBinary, "run", "-c", m.serverConfigPath) started;
\* doc is the server document the process finds at that path
\* (killed: "no", or the state the process was in when stop signalled it;
\* found: the handle the reaper met when it held the mutex)
NewProc(doc) ==
    [state |-> "alive", killed |-> "no", reaper |-> "wait", doc |-> doc,
     found |-> 0]

\* (a stop that sends the process nothing)
Killed_None(ps, cmd) == ps

\* lines 275-285: cmd.Process.Signal(os.Interrupt), the 350 ms sleep and
\* cmd.Process.Kill() on the process the handle refers to
Killed(ps, cmd) == [ps EXCEPT ![cmd].killed = ps[cmd].state]

\* (a stop that kills and forgets to clear the handle)
HandleAfterStop_Kept(cmd) == cmd

\* stopInterfaceLocked, line 285 (and 277): what the handle is afterwards
HandleAfterStop(cmd) == 0

\* startInterfaceLocked: nothing to do when running (line 222), else the log
\* file is opened, the process started, the handle set and the reaper
\* goroutine launched (lines 226-257)
StartLocked(t) ==
    /\ IF interfaceRunningLocked
       THEN UNCHANGED <<serverCmd, procs>>
       ELSE /\ procs' = Append(procs, NewProc(Content(fs, serverConfigPath)))
            /\ serverCmd' = Len(procs) + 1
    /\ th' = [th EXCEPT ![t].todo = Tail(@)]
    /\ UNCHANGED <<mu, fs, rnd, ops, faults, last>>

\* (a start that records the handle before it knows the process started)
StartFailLocked_HandleSet(t, e) ==
    /\ ~interfaceRunningLocked
    /\ CanFail
    /\ faults' = faults + 1
    /\ procs' = Append(procs, [NewProc(Content(fs, serverConfigPath))
                                 EXCEPT !.state = "exited"])
    /\ serverCmd' = Len(procs) + 1
    /\ th' = [th EXCEPT ![t] = Fail(th[t], e)]
    /\ UNCHANGED <<mu, fs, rnd, ops, last>>

\* lines 226-237: os.OpenFile of the log or cmd.Start fails
StartFailLocked(t, e) ==
    /\ ~interfaceRunningLocked
    /\ CanFail
    /\ faults' = faults + 1
    /\ th' = [th EXCEPT ![t] = Fail(th[t], e)]
    /\ UNCHANGED <<mu, serverCmd, fs, procs, rnd, ops, last>>

\* StartInterface, line 218
Start(t) == At(t, "start") /\ StartLocked(t)
StartFail(t) == At(t, "start") /\ StartFailLocked(t, "spawn")

\* createClientLocked, line 322
Restart(t) == At(t, "restart") /\ StartLocked(t)
RestartFail(t) == At(t, "restart") /\ StartFailLocked(t, "reload")

\* stopInterfaceLocked
StopLocked ==
    IF interfaceRunningLocked
    THEN /\ procs' = Killed(procs, serverCmd)
         /\ serverCmd' = HandleAfterStop(serverCmd)
    ELSE UNCHANGED <<serverCmd, procs>>

\* (a stop that waits for the reaper of the process before it returns)
Stop_WaitsForReaper(t) ==
    /\ At(t, "stop")
    /\ interfaceRunningLocked => procs[serverCmd].reaper = "done"
    /\ StopLocked
    /\ th' = [th EXCEPT ![t].todo = Tail(@)]
    /\ UNCHANGED <<mu, fs, rnd, ops, faults, last>>

\* StopInterface, line 266
Stop(t) ==
    /\ At(t, "stop")
    /\ StopLocked
    /\ th' = [th EXCEPT ![t].todo = Tail(@)]
    /\ UNCHANGED <<mu, fs, rnd, ops, faults, last>>

\* (a reload that stops and does not start again)
Reload_StopOnly(t) ==
    /\ At(t, "reload")
    /\ StopLocked
    /\ th' = [th EXCEPT ![t].todo = Tail(@)]
    /\ UNCHANGED <<mu, fs, rnd, ops, faults, last>>


\* (a reload that starts a process whether or not one was running)
Reload_Always(t) ==
    /\ At(t, "reload")
    /\ StopLocked
    /\ th' = [th EXCEPT ![t].todo = <<"restart">> \o Tail(@)]
    /\ UNCHANGED <<mu, fs, rnd, ops, faults, last>>

\* createClientLocked, lines 320-321: the stop of the stop/start cycle
Reload(t) ==
    /\ At(t, "reload")
    /\ StopLocked
    /\ th' = [th EXCEPT ![t].todo =
                IF interfaceRunningLocked THEN <<"restart">> \o Tail(@)
                ELSE Tail(@)]
    /\ UNCHANGED <<mu, fs, rnd, ops, faults, last>>

\* StartInterface, lines 214-218
StartCheck(t) ==
    /\ At(t, "startcheck")
    /\ th' = [th EXCEPT ![t].todo =
                IF interfaceRunningLocked THEN Tail(@)
                ELSE <<"start">> \o Tail(@)]
    /\ UNCHANGED <<mu, serverCmd, fs, procs, rnd, ops, faults, last>>

\* the sing-box process ends, by itself or because it was killed
ProcExit(p) ==
    /\ procs[p].state = "alive"
    /\ procs' = [procs EXCEPT ![p].state = "exited"]
    /\ UNCHANGED <<mu, serverCmd, fs, th, rnd, ops, faults, last>>

\* reaper, lines 243-246: cmd.Wait() has returned and m.mu.Lock() succeeds
ReaperLock(p) ==
    /\ procs[p].state = "exited"
    /\ procs[p].reaper = "wait"
    /\ MutexFree
    /\ mu' = TRUE
    /\ procs' = [procs EXCEPT ![p].reaper = "in"]
    /\ UNCHANGED <<serverCmd, fs, th, rnd, ops, faults, last>>

\* (a reaper that only asks whether there is a handle)
ReaperOwns_NotNil(p) == serverCmd # 0

\* (a reaper that never finds the handle to be its own)
ReaperOwns_Never(p) == FALSE

\* reaper, line 247: m.serverCmd == cmd
ReaperOwns(p) == serverCmd = p

\* reaper, lines 247-250
ReaperClear(p) ==
    /\ procs[p].reaper = "in"
    /\ serverCmd' = IF ReaperOwns(p) THEN 0 ELSE serverCmd
    /\ mu' = FALSE
    /\ procs' = [procs EXCEPT ![p].reaper = "done", ![p].found = serverCmd]
    /\ UNCHANGED <<fs, th, rnd, ops, faults, last>>

(***************************************************************************)
(* The rest of the public methods.                                         *)
(***************************************************************************)
\* InitState, lines 87-101: MkdirAll and Chmod of the directories
Dirs(t) ==
    /\ At(t, "dirs")
    /\ th' = [th EXCEPT ![t].todo = Tail(@)]
    /\ UNCHANGED <<mu, serverCmd, fs, procs, rnd, ops, faults, last>>

DirsFail(t) ==
    /\ At(t, "dirs")
    /\ CanFail
    /\ faults' = faults + 1
    /\ th' = [th EXCEPT ![t] = Fail(th[t], "io")]
    /\ UNCHANGED <<mu, serverCmd, fs, procs, rnd, ops, last>>

\* (a check that never finds the material in place)
HaveTLSMaterial_Never == FALSE

\* ensureTLSMaterialLocked, line 472
HaveTLSMaterial == Exists(TLSCertPath) /\ Exists(TLSKeyPath)

\* ensureTLSMaterialLocked and generateSelfSignedCertificate up to line 803:
\* a key pair is generated and the certificate is being written
EnsureTLS(t) ==
    /\ At(t, "tls")
    /\ IF HaveTLSMaterial
       THEN /\ th' = [th EXCEPT ![t].todo = Tail(@)]
            /\ UNCHANGED <<fs, rnd>>
       ELSE /\ rnd' = rnd + 1
            /\ StartWrite(t, [th[t] EXCEPT !.todo = <<"tlskey">> \o Tail(@)],
                          TLSCertPath, CertPEM(rnd + 1))
    /\ UNCHANGED <<mu, serverCmd, procs, ops, faults, last>>

\* generateSelfSignedCertificate, line 806: the key of the same pair
TLSKey(t) ==
    /\ At(t, "tlskey")
    /\ StartWrite(t, [th[t] EXCEPT !.todo = Tail(@)],
                  TLSKeyPath, KeyPEM(fs[TLSCertPath].pair))
    /\ UNCHANGED <<mu, serverCmd, procs, rnd, ops, faults, last>>

\* InitState, lines 111-119: createClientLocked("default-client") and a
\* second load when the loaded map is empty
Bootstrap(t) ==
    /\ At(t, "bootstrap")
    /\ th' = [th EXCEPT ![t] =
                IF Keys(th[t].clients) = {}
                THEN [@ EXCEPT !.arg = S_default_client,
                               !.todo = <<"create", "load">> \o Tail(@)]
                ELSE [@ EXCEPT !.todo = Tail(@)]]
    /\ UNCHANGED <<mu, serverCmd, fs, procs, rnd, ops, faults, last>>

\* (a lookup that hands back the file as it is, without writing it anew)
Lookup_ReadOnly(t) ==
    /\ At(t, "lookup")
    /\ LET r == th[t]
       IN  th' = [th EXCEPT ![t] =
                    IF r.arg \in Keys(r.clients)
                    THEN [r EXCEPT !.c = r.clients[r.arg],
                                   !.todo = <<"readcfg">> \o Tail(@)]
                    ELSE Fail(r, "notfound")]
    /\ UNCHANGED <<mu, serverCmd, fs, procs, rnd, ops, faults, last>>

\* (a lookup followed by the stop/start cycle of createClientLocked)
Lookup_ThenReload(t) ==
    /\ At(t, "lookup")
    /\ LET r == th[t]
       IN  IF r.arg \in Keys(r.clients)
           THEN StartWrite(t, [r EXCEPT !.c = r.clients[r.arg],
                                        !.todo = <<"readcfg", "reload">> \o Tail(@)],
                           r.clients[r.arg].ConfigPath,
                           buildClientConfigMap(r.clients[r.arg]))
           ELSE /\ th' = [th EXCEPT ![t] = Fail(r, "notfound")]
                /\ UNCHANGED fs
    /\ UNCHANGED <<mu, serverCmd, procs, rnd, ops, faults, last>>

\* (a lookup that takes the zero record of a missing key for a record)
Lookup_IgnoreOk(t) ==
    /\ At(t, "lookup")
    /\ LET r == th[t]
       IN  IF r.arg \in Keys(r.clients)
           THEN StartWrite(t, [r EXCEPT !.c = r.clients[r.arg],
                                        !.todo = <<"readcfg">> \o Tail(@)],
                           r.clients[r.arg].ConfigPath,
                           buildClientConfigMap(r.clients[r.arg]))
           ELSE StartWrite(t, [r EXCEPT !.c = NoClient,
                                        !.todo = <<"readcfg">> \o Tail(@)],
                           NoPath, buildClientConfigMap(NoClient))
    /\ UNCHANGED <<mu, serverCmd, procs, rnd, ops, faults, last>>

\* GetClientConfig, lines 186-193
Lookup(t) ==
    /\ At(t, "lookup")
    /\ LET r == th[t]
       IN  IF r.arg \in Keys(r.clients)
           THEN StartWrite(t, [r EXCEPT !.c = r.clients[r.arg],
                                        !.todo = <<"readcfg">> \o Tail(@)],
                           r.clients[r.arg].ConfigPath,
                           buildClientConfigMap(r.clients[r.arg]))
           ELSE /\ th' = [th EXCEPT ![t] = Fail(r, "notfound")]
                /\ UNCHANGED fs
    /\ UNCHANGED <<mu, serverCmd, procs, rnd, ops, faults, last>>

\* os.ReadFile(c.ConfigPath), lines 195-199 and 327-331
ReadCfg(t) ==
    /\ At(t, "readcfg")
    /\ LET r == th[t]
       IN  th' = [th EXCEPT ![t] =
                    IF Exists(r.c.ConfigPath)
                    THEN [r EXCEPT !.raw = fs[r.c.ConfigPath], !.todo = Tail(@)]
                    ELSE Fail(r, "read")]
    /\ UNCHANGED <<mu, serverCmd, fs, procs, rnd, ops, faults, last>>

\* lines 195-198 and 327-330: os.ReadFile of the client document fails
ReadCfgFail(t) ==
    /\ At(t, "readcfg")
    /\ CanFail
    /\ faults' = faults + 1
    /\ th' = [th EXCEPT ![t] = Fail(th[t], "read")]
    /\ UNCHANGED <<mu, serverCmd, fs, procs, rnd, ops, last>>

\* what a method hands back when it returns
Result(r, cmd) ==
    [op |-> r.op, arg |-> r.arg, err |-> r.err,
     c |-> IF r.err = "none" THEN r.c ELSE NoClient,
     raw |-> IF r.err = "none" THEN r.raw ELSE Blank,
     running |-> r.running, list |-> r.list, cmd |-> cmd, made |-> r.c,
     failed |-> r.failed, pre |-> r.pre]

\* the deferred m.mu.Unlock() and the return
Ret(t) ==
    /\ At(t, "ret")
    /\ mu' = FALSE
    /\ last' = Result(th[t], serverCmd)
    /\ th' = [th EXCEPT ![t] = Idle]
    /\ UNCHANGED <<serverCmd, fs, procs, rnd, ops, faults>>

\* GetStatus, lines 145-146: the running flag is read, the mutex released
Status(t) ==
    /\ At(t, "status")
    /\ mu' = FALSE
    /\ th' = [th EXCEPT ![t] = [@ EXCEPT !.running = interfaceRunningLocked,
                                         !.held = FALSE, !.todo = Tail(@)]]
    /\ UNCHANGED <<serverCmd, fs, procs, rnd, ops, faults, last>>

\* GetStatus, lines 150-159: one summary of a record
StatusClient(c) ==
    [ID |-> c.ID, Name |-> c.Name, UUID |-> c.UUID,
     Address |-> IF c.Address = 0 THEN c.UUID ELSE c.Address,
     CreatedAt |-> c.CreatedAt]

\* for id, c := range clients: the keys in one of the orders the runtime may
\* choose
Iterations(m) ==
    {s \in [1..Cardinality(DOMAIN m) -> DOMAIN m] :
        \A i, j \in DOMAIN s : s[i] = s[j] => i = j}

\* x put before the first element of s whose ID is greater
RECURSIVE InsertByID(_, _)
InsertByID(s, x) ==
    IF s = <<>> THEN <<x>>
    ELSE IF StrLess(x.ID, Head(s).ID) THEN <<x>> \o s
    ELSE <<Head(s)>> \o InsertByID(Tail(s), x)

\* (a list left in the order of the iteration)
SortSlice_None(list) == list

\* sort.Slice(list, func(i, j int) bool { return list[i].ID < list[j].ID })
\* on a slice
RECURSIVE SortSlice(_)
SortSlice(list) ==
    IF list = <<>> THEN <<>>
    ELSE InsertByID(SortSlice(SubSeq(list, 1, Len(list) - 1)), list[Len(list)])

\* GetStatus, lines 148-175, outside the mutex
StatusList(t) ==
    /\ At(t, "statuslist")
    /\ LET r == th[t]
       IN  \E it \in Iterations(r.clients) :
              LET list == [i \in DOMAIN it |-> StatusClient(r.clients[it[i]])]
              IN  last' = Result([r EXCEPT !.list = SortSlice(list)], serverCmd)
    /\ th' = [th EXCEPT ![t] = Idle]
    /\ UNCHANGED <<mu, serverCmd, fs, procs, rnd, ops, faults>>

(***************************************************************************)
(* The specification.                                                      *)
(***************************************************************************)
Next ==
    \/ \E t \in Callers, call \in Calls : Lock(t, call)
    \/ \E t \in Callers :
          \/ WriteFileDone(t) \/ WriteFileFail(t) \/ Rename(t) \/ RenameFail(t)
          \/ Load(t) \/ LoadReadFail(t) \/ Create(t) \/ Rewrite(t) \/ Docs(t)
          \/ Start(t) \/ StartFail(t) \/ Restart(t) \/ RestartFail(t)
          \/ Stop(t) \/ Reload(t) \/ StartCheck(t)
          \/ Dirs(t) \/ DirsFail(t) \/ EnsureTLS(t) \/ TLSKey(t) \/ Bootstrap(t)
          \/ Lookup(t) \/ ReadCfg(t) \/ ReadCfgFail(t) \/ Ret(t) \/ Status(t) \/ StatusList(t)
    \/ \E p \in DOMAIN procs : ProcExit(p)
    \/ \E p \in DOMAIN procs : ReaperLock(p)
    \/ \E p \in DOMAIN procs : ReaperClear(p)

Spec == Init /\ [][Next]_vars


(***************************************************************************)
(* Scheduling.  A goroutine that can take a step takes one (the runtime     *)
(* schedules every runnable goroutine; file operations and the 350 ms sleep *)
(* of stopInterfaceLocked end).  sync.Mutex hands the mutex to a goroutine  *)
(* that has waited in Lock (starvation mode), so a reaper that can take the *)
(* mutex again and again does take it.  Nothing makes a sing-box process    *)
(* exit, and nothing makes a request arrive.                                *)
(***************************************************************************)
\* a step of the goroutine t other than the Lock that begins a method
Step(t) ==
    \/ WriteFileDone(t) \/ WriteFileFail(t) \/ Rename(t) \/ RenameFail(t)
    \/ Load(t) \/ LoadReadFail(t) \/ Create(t) \/ Rewrite(t) \/ Docs(t)
    \/ Start(t) \/ StartFail(t) \/ Restart(t) \/ RestartFail(t)
    \/ Stop(t) \/ Reload(t) \/ StartCheck(t)
    \/ Dirs(t) \/ DirsFail(t) \/ EnsureTLS(t) \/ TLSKey(t) \/ Bootstrap(t)
    \/ Lookup(t) \/ ReadCfg(t) \/ ReadCfgFail(t) \/ Ret(t) \/ Status(t)
    \/ StatusList(t)

\* the processes one behaviour can spawn: each method spawns at most one
ProcIDs == 1..MaxOps

Fairness ==
    /\ \A t \in Callers : WF_vars(Step(t))
    /\ \A p \in ProcIDs : SF_vars(p \in DOMAIN procs /\ ReaperLock(p))
    /\ \A p \in ProcIDs : WF_vars(p \in DOMAIN procs /\ ReaperClear(p))

SpecLive == Init /\ [][Next]_vars /\ Fairness

(***************************************************************************)
(* Functions of the Go library the manager and the HTTP layer call on      *)
(* addresses: net.SplitHostPort, strconv.Atoi, net.ParseIP, IP.To4,        *)
(* IP.String and the address classes.  An address is kept the way net.IP   *)
(* keeps it, in 16 bytes, here as 8 words of 16 bits; an IPv4 address is   *)
(* ::ffff:a.b.c.d.                                                         *)
(***************************************************************************)
\* bytealg.IndexByteString, counted from 1; 0 when c is not in s
IndexByte(s, c) ==
    IF \E i \in DOMAIN s : s[i] = c
    THEN CHOOSE i \in DOMAIN s : s[i] = c /\ \A j \in 1..(i - 1) : s[j] # c
    ELSE 0

\* bytealg.LastIndexByteString, counted from 1; 0 when c is not in s
LastIndexByte(s, c) ==
    IF \E i \in DOMAIN s : s[i] = c
    THEN CHOOSE i \in DOMAIN s : s[i] = c /\ \A j \in (i + 1)..Len(s) : s[j] # c
    ELSE 0

\* s[i:] for i counted from 0
From(s, i) == SubSeq(s, i + 1, Len(s))

\* strings.HasPrefix
HasPrefix(s, p) == Len(s) >= Len(p) /\ SubSeq(s, 1, Len(p)) = p

\* net.SplitHostPort
SplitHostPort(hostport) ==
    LET i == LastIndexByte(hostport, ":")
        end == IndexByte(hostport, "]")
        bracket == hostport[1] = "["
        host == IF bracket THEN SubSeq(hostport, 2, end - 1)
                ELSE SubSeq(hostport, 1, i - 1)
        j == IF bracket THEN 1 ELSE 0
        k == IF bracket THEN end ELSE 0
        failed == [err |-> TRUE, host |-> <<>>, port |-> <<>>]
    IN  IF i = 0 THEN failed
        ELSE IF bracket /\ (end = 0 \/ end + 1 # i) THEN failed
        ELSE IF ~bracket /\ IndexByte(host, ":") # 0 THEN failed
        ELSE IF IndexByte(From(hostport, j), "[") # 0 THEN failed
        ELSE IF IndexByte(From(hostport, k), "]") # 0 THEN failed
        ELSE [err |-> FALSE, host |-> host, port |-> From(hostport, i)]

IsDigit(c) == c \in Range(Digits)

\* strconv.Atoi with its error: an optional sign and at least one digit,
\* nothing else (the strings of the model are too short to overflow an int)
strconvAtoi(s) ==
    LET signed == s # <<>> /\ s[1] \in {"+", "-"}
        digits == IF signed THEN Tail(s) ELSE s
    IN  IF digits = <<>> \/ \E i \in DOMAIN digits : ~IsDigit(digits[i])
        THEN [err |-> TRUE, n |-> 0]
        ELSE [err |-> FALSE,
              n |-> IF signed /\ s[1] = "-" THEN 0 - Atoi(digits)
                    ELSE Atoi(digits)]

\* the parts of s between the separators
RECURSIVE Split(_, _)
Split(s, sep) ==
    LET i == IndexByte(s, sep)
    IN  IF i = 0 THEN <<s>>
        ELSE <<SubSeq(s, 1, i - 1)>> \o Split(From(s, i), sep)

\* net.ParseIP found no address
NilIP == <<>>

\* netip.parseIPv4Fields: four fields of digits between dots, none empty,
\* none above 255, none with a leading zero
parseIPv4Fields(s) ==
    LET f == Split(s, ".")
        ok(x) == /\ x # <<>>
                 /\ \A i \in DOMAIN x : IsDigit(x[i])
                 /\ Len(x) <= 3
                 /\ (Len(x) > 1 => x[1] # "0")
                 /\ Atoi(x) <= 255
    IN  IF Len(f) = 4 /\ \A i \in 1..4 : ok(f[i])
        THEN [i \in 1..4 |-> Atoi(f[i])]
        ELSE NilIP

HexDigits == Digits \o <<"a", "b", "c", "d", "e", "f">>

IsHex(c) == ToLowerChar(c) \in Range(HexDigits)

HexDigitVal(c) == (CHOOSE i \in DOMAIN HexDigits : HexDigits[i] = ToLowerChar(c)) - 1

RECURSIVE HexVal(_)
HexVal(s) ==
    IF s = <<>> THEN 0
    ELSE 16 * HexVal(SubSeq(s, 1, Len(s) - 1)) + HexDigitVal(s[Len(s)])

\* the number of hexadecimal digits s begins with
HexRun(s) ==
    IF \E i \in DOMAIN s : ~IsHex(s[i])
    THEN (CHOOSE i \in DOMAIN s : ~IsHex(s[i]) /\ \A j \in 1..(i - 1) : IsHex(s[j])) - 1
    ELSE Len(s)

\* the two words of an IPv4 address
V4Words(b) == <<b[1] * 256 + b[2], b[3] * 256 + b[4]>>

\* netip.parseIPv6, the loop over the groups: s is what is left of the text,
\* w the words read so far, el the number of words before "::" (-1: no "::"
\* met); the result is the words and el, or failure
RECURSIVE parseIPv6Groups(_, _, _)
parseIPv6Groups(s, w, el) ==
    LET off == HexRun(s)
        failed == [err |-> TRUE, w |-> <<>>, el |-> el]
        done(words, e) == [err |-> FALSE, w |-> words, el |-> e]
        w2 == Append(w, HexVal(SubSeq(s, 1, off)))
        r == From(s, off)
    IN  IF Len(w) >= 8 THEN (IF s = <<>> THEN done(w, el) ELSE failed)
        ELSE IF off = 0 \/ off > 4 THEN failed
        ELSE IF off < Len(s) /\ s[off + 1] = "."
        THEN IF (el < 0 /\ Len(w) # 6) \/ Len(w) + 2 > 8
                \/ parseIPv4Fields(s) = NilIP
             THEN failed
             ELSE done(w \o V4Words(parseIPv4Fields(s)), el)
        ELSE IF r = <<>> THEN done(w2, el)
        ELSE IF r[1] # ":" \/ Len(r) = 1 THEN failed
        ELSE IF r[2] = ":"
        THEN IF el >= 0 THEN failed
             ELSE IF Len(r) = 2 THEN done(w2, Len(w2))
             ELSE parseIPv6Groups(From(r, 2), w2, Len(w2))
        ELSE parseIPv6Groups(From(r, 1), w2, el)

Zeros(n) == [i \in 1..n |-> 0]

\* netip.parseIPv6 (a zone, "%eth0", makes net.ParseIP fail)
parseIPv6(s) ==
    LET lead == Len(s) >= 2 /\ s[1] = ":" /\ s[2] = ":"
        g == IF lead THEN parseIPv6Groups(From(s, 2), <<>>, 0)
             ELSE parseIPv6Groups(s, <<>>, -1)
    IN  IF IndexByte(s, "%") # 0 THEN NilIP
        ELSE IF lead /\ Len(s) = 2 THEN Zeros(8)
        ELSE IF g.err THEN NilIP
        ELSE IF Len(g.w) = 8 THEN (IF g.el >= 0 THEN NilIP ELSE g.w)
        ELSE IF g.el < 0 THEN NilIP
        ELSE SubSeq(g.w, 1, g.el) \o Zeros(8 - Len(g.w))
             \o SubSeq(g.w, g.el + 1, Len(g.w))

\* net.ParseIP: the first '.' or ':' of the text decides between the two
\* forms; the result is the 16-byte form, NilIP when s is not an address
ParseIP(s) ==
    LET dot == IndexByte(s, ".")
        colon == IndexByte(s, ":")
    IN  IF dot # 0 /\ (colon = 0 \/ dot < colon)
        THEN IF parseIPv4Fields(s) = NilIP THEN NilIP
             ELSE Zeros(5) \o <<65535>> \o V4Words(parseIPv4Fields(s))
        ELSE IF colon # 0 THEN parseIPv6(s)
        ELSE NilIP

\* IP.To4: the four bytes of an IPv4 address, NilIP for any other address
To4(ip) ==
    IF SubSeq(ip, 1, 6) = Zeros(5) \o <<65535>>
    THEN <<ip[7] \div 256, ip[7] % 256, ip[8] \div 256, ip[8] % 256>>
    ELSE NilIP

\* a number in hexadecimal, no leading zero
RECURSIVE HexString(_)
HexString(n) ==
    IF n < 16 THEN <<HexDigits[n + 1]>>
    ELSE HexString(n \div 16) \o <<HexDigits[(n % 16) + 1]>>

\* the words of w joined by ":"
RECURSIVE JoinHex(_)
JoinHex(w) ==
    IF w = <<>> THEN <<>>
    ELSE IF Len(w) = 1 THEN HexString(w[1])
    ELSE HexString(w[1]) \o <<":">> \o JoinHex(Tail(w))

\* the number of zero words of ip from word i on
ZeroRun(ip, i) ==
    IF \E j \in i..8 : ip[j] # 0
    THEN (CHOOSE j \in i..8 : ip[j] # 0 /\ \A k \in i..(j - 1) : ip[k] = 0) - i
    ELSE 9 - i

\* IP.String: four bytes in dotted decimal; sixteen bytes that are an IPv4
\* address too; any other address in groups of lower-case hexadecimal, the
\* first longest run of two or more zero groups written "::"
IPString(ip) ==
    LET four == IF Len(ip) = 4 THEN ip ELSE To4(ip)
        longest == CHOOSE i \in 1..8 :
                      \A j \in 1..8 : /\ ZeroRun(ip, j) <= ZeroRun(ip, i)
                                      /\ (j < i => ZeroRun(ip, j) < ZeroRun(ip, i))
        n == ZeroRun(ip, longest)
    IN  IF four # NilIP
        THEN Itoa(four[1]) \o <<".">> \o Itoa(four[2]) \o <<".">>
             \o Itoa(four[3]) \o <<".">> \o Itoa(four[4])
        ELSE IF n < 2 THEN JoinHex(ip)
        ELSE JoinHex(SubSeq(ip, 1, longest - 1)) \o <<":", ":">>
             \o JoinHex(SubSeq(ip, longest + n, 8))

\* IP.IsLoopback: 127.0.0.0/8 and ::1
IsLoopback(ip) ==
    IF To4(ip) # NilIP THEN To4(ip)[1] = 127
    ELSE ip = Zeros(7) \o <<1>>

\* IP.IsPrivate: 10.0.0.0/8, 172.16.0.0/12, 192.168.0.0/16 and fc00::/7
IsPrivate(ip) ==
    LET b == To4(ip)
    IN  IF b # NilIP
        THEN \/ b[1] = 10
             \/ b[1] = 172 /\ b[2] \div 16 = 1
             \/ b[1] = 192 /\ b[2] = 168
        ELSE ip[1] \div 512 = 126

\* IP.IsLinkLocalUnicast: 169.254.0.0/16 and fe80::/10
IsLinkLocalUnicast(ip) ==
    LET b == To4(ip)
    IN  IF b # NilIP THEN b[1] = 169 /\ b[2] = 254
        ELSE ip[1] \div 64 = 1018

\* IP.IsLinkLocalMulticast: 224.0.0.0/24 and ff02::/16 whatever the flags
IsLinkLocalMulticast(ip) ==
    LET b == To4(ip)
    IN  IF b # NilIP THEN b[1] = 224 /\ b[2] = 0 /\ b[3] = 0
        ELSE ip[1] \div 256 = 255 /\ ip[1] % 16 = 2

(***************************************************************************)
(* The HTTP layer: apiAuthMiddleware in front of the handlers.  A request  *)
(* is its path, its Authorization and X-API-Token headers (<<>> when the   *)
(* header is absent: Header.Get returns "") and its RemoteAddr.            *)
(***************************************************************************)
S_bearer == <<"b","e","a","r","e","r"," ">>

Request(path, authorization, xAPIToken, remoteAddr) ==
    [Path |-> path, Authorization |-> authorization,
     XAPIToken |-> xAPIToken, RemoteAddr |-> remoteAddr]

\* next.ServeHTTP(w, r): the wrapped handler answers
Served == [kind |-> "response", next |-> TRUE, status |-> 0]

StatusUnauthorized == 401

\* writeError(w, http.StatusUnauthorized, ...)
Unauthorized == [kind |-> "response", next |-> FALSE, status |-> StatusUnauthorized]

requiresAPIAuth(r) == r.Path # "/status"

\* (the X-API-Token header is read first)
requestAPIToken_HeaderFirst(r) ==
    LET auth == TrimSpace(r.Authorization)
    IN  IF TrimSpace(r.XAPIToken) # <<>> THEN TrimSpace(r.XAPIToken)
        ELSE IF auth # <<>> /\ HasPrefix(ToLower(auth), S_bearer)
        THEN TrimSpace(From(auth, Len(S_bearer)))
        ELSE <<>>

requestAPIToken(r) ==
    LET auth == TrimSpace(r.Authorization)
    IN  IF auth # <<>> /\ HasPrefix(ToLower(auth), S_bearer)
        THEN TrimSpace(From(auth, Len(S_bearer)))
        ELSE TrimSpace(r.XAPIToken)

\* sha256.Sum256: no two strings anyone can produce have the same sum
Sum256(s) == [sha256 |-> s]

secureTokenEqual(got, want) ==
    LET g == TrimSpace(got)
        w == TrimSpace(want)
    IN  IF g = <<>> \/ w = <<>> THEN FALSE
        ELSE Sum256(g) = Sum256(w)

isTrustedLocalRemote(remoteAddr) ==
    LET sp == SplitHostPort(TrimSpace(remoteAddr))
        host == IF sp.err THEN TrimSpace(remoteAddr) ELSE sp.host
        ip == ParseIP(host)
    IN  IF ip = NilIP THEN FALSE
        ELSE \/ IsLoopback(ip) \/ IsPrivate(ip)
             \/ IsLinkLocalUnicast(ip) \/ IsLinkLocalMulticast(ip)

\* the handler apiAuthMiddleware(apiToken, next) returns, serving r
apiAuthMiddleware(apiToken, r) ==
    LET token == TrimSpace(apiToken)
    IN  IF ~requiresAPIAuth(r) THEN Served
        ELSE IF token = <<>>
        THEN (IF isTrustedLocalRemote(r.RemoteAddr) THEN Served
              ELSE Unauthorized)
        ELSE IF ~secureTokenEqual(requestAPIToken(r), token) THEN Unauthorized
        ELSE Served

(***************************************************************************)
(* The endpoint in the client document: resolveEndpointHostPort,           *)
(* routeExcludeCIDRsForHost and the parts of buildClientConfigMap that     *)
(* come from the Config.                                                   *)
(***************************************************************************)
S_loopback == <<"1","2","7",".","0",".","0",".","1">>

\* (a port is taken from the string whatever number it is)
resolveEndpointHostPort_AnyPort(rawHost, fallbackPort) ==
    LET host == TrimSpace(rawHost)
        sp == SplitHostPort(host)
        p == strconvAtoi(sp.port)
    IN  IF host = <<>> THEN [host |-> S_loopback, port |-> fallbackPort]
        ELSE IF ~sp.err
        THEN [host |-> sp.host, port |-> IF ~p.err THEN p.n ELSE fallbackPort]
        ELSE [host |-> host, port |-> fallbackPort]

resolveEndpointHostPort(rawHost, fallbackPort) ==
    LET host == TrimSpace(rawHost)
        sp == SplitHostPort(host)
        p == strconvAtoi(sp.port)
    IN  IF host = <<>> THEN [host |-> S_loopback, port |-> fallbackPort]
        ELSE IF ~sp.err
        THEN [host |-> sp.host,
              port |-> IF ~p.err /\ p.n > 0 THEN p.n ELSE fallbackPort]
        ELSE [host |-> host, port |-> fallbackPort]

\* (the host as it is written, with the prefix length of its family)
routeExcludeCIDRsForHost_AsWritten(host) ==
    LET trimmedHost == TrimSpace(host)
        parsedIP == ParseIP(trimmedHost)
    IN  IF trimmedHost = <<>> \/ parsedIP = NilIP THEN <<>>
        ELSE IF IndexByte(trimmedHost, ":") = 0
        THEN <<trimmedHost \o <<"/", "3", "2">>>>
        ELSE <<trimmedHost \o <<"/", "1", "2", "8">>>>

routeExcludeCIDRsForHost(host) ==
    LET trimmedHost == TrimSpace(host)
        parsedIP == ParseIP(trimmedHost)
    IN  IF trimmedHost = <<>> THEN <<>>
        ELSE IF parsedIP = NilIP THEN <<>>
        ELSE IF To4(parsedIP) # NilIP
        THEN <<IPString(To4(parsedIP)) \o <<"/", "3", "2">>>>
        ELSE <<IPString(parsedIP) \o <<"/", "1", "2", "8">>>>

\* Config, as far as the client document and the share URI depend on it;
\* the defaults are those of LoadConfig, where the TLS server name is the
\* endpoint unless it is set
S_vpn_path == <<"/","v","p","n">>
S_sb_tun == <<"s","b","-","t","u","n">>
S_default_tun == <<"1","7","2",".","1","9",".","0",".","1","/","3","0">>

Config(endpointHost, listenPort) ==
    [EndpointHost |-> endpointHost, ListenPort |-> listenPort,
     WebsocketPath |-> S_vpn_path, TLSServerName |-> endpointHost,
     ClientInsecureTLS |-> TRUE, ClientTunName |-> S_sb_tun,
     ClientTunCIDR |-> S_default_tun]

\* strings.Split(raw, ","), strings.TrimSpace of each part, the empty ones
\* left out
RECURSIVE TrimmedParts(_)
TrimmedParts(parts) ==
    IF parts = <<>> THEN <<>>
    ELSE (IF TrimSpace(Head(parts)) = <<>> THEN <<>>
          ELSE <<TrimSpace(Head(parts))>>) \o TrimmedParts(Tail(parts))

\* (every part is kept, trimmed)
splitAndTrimCSV_KeepEmpty(raw) ==
    LET parts == Split(raw, ",")
    IN  [i \in DOMAIN parts |-> TrimSpace(parts[i])]

splitAndTrimCSV(raw) == TrimmedParts(Split(raw, ","))

\* buildClientConfigMap, lines 539-542
tunAddresses(cfg) ==
    IF Len(splitAndTrimCSV(cfg.ClientTunCIDR)) = 0 THEN <<S_default_tun>>
    ELSE splitAndTrimCSV(cfg.ClientTunCIDR)

\* buildClientConfigMap, lines 544-554
privateCIDRs ==
    <<"127.0.0.0/8", "10.0.0.0/8", "172.16.0.0/12", "192.168.0.0/16",
      "169.254.0.0/16", "224.0.0.0/4", "::1/128", "fc00::/7", "fe80::/10">>

\* buildClientConfigMap, lines 555-568: the tun inbound, a map that has the
\* key route_exclude_address only when there is something to exclude
tunInbound(cfg, addresses, endpointExcludeCIDRs) ==
    [k \in {"type", "tag", "interface_name", "address", "auto_route",
            "strict_route", "sniff", "sniff_override_destination", "stack"}
           \cup (IF Len(endpointExcludeCIDRs) > 0
                 THEN {"route_exclude_address"} ELSE {}) |->
        CASE k = "type" -> "tun"
          [] k = "tag" -> "tun-in"
          [] k = "interface_name" -> cfg.ClientTunName
          [] k = "address" -> addresses
          [] k \in {"auto_route", "strict_route", "sniff"} -> TRUE
          [] k = "sniff_override_destination" -> FALSE
          [] k = "stack" -> "mixed"
          [] OTHER -> endpointExcludeCIDRs]

\* (the private networks first, the DNS rule second)
RouteRules_DirectFirst ==
    <<[ip_cidr |-> privateCIDRs, outbound |-> "direct"],
      [protocol |-> "dns", action |-> "hijack-dns"]>>

\* buildClientConfigMap, lines 620-629: "rules" of "route"
RouteRules ==
    <<[protocol |-> "dns", action |-> "hijack-dns"],
      [ip_cidr |-> privateCIDRs, outbound |-> "direct"]>>

\* buildClientConfigMap(cfg, c): the tun inbound, the vless outbound
\* (uuid, server, server_port, tls, transport), the other outbounds, and the
\* "dns" and "route" maps (buildClientConfigMap(c) above is this document
\* under the one Config of a manager, which never changes)
buildClientConfigMapFor(cfg, c) ==
    LET hp == resolveEndpointHostPort(cfg.EndpointHost, cfg.ListenPort)
    IN  [kind |-> "clientdoc", uuid |-> c.UUID,
         server |-> hp.host, server_port |-> hp.port,
         tun |-> tunInbound(cfg, tunAddresses(cfg),
                            routeExcludeCIDRsForHost(hp.host)),
         tls |-> [enabled |-> TRUE, server_name |-> cfg.TLSServerName,
                  insecure |-> cfg.ClientInsecureTLS],
         transport |-> [type |-> "ws", path |-> cfg.WebsocketPath],
         outbounds |-> <<[type |-> "vless", tag |-> "vless-out"],
                         [type |-> "direct", tag |-> "direct"],
                         [type |-> "block", tag |-> "block"]>>,
         dns |-> [servers |-> <<[type |-> "udp", tag |-> "dns-remote",
                                 server |-> "1.1.1.1",
                                 detour |-> "vless-out"]>>,
                  final |-> "dns-remote", strategy |-> "prefer_ipv4"],
         route |-> [auto_detect_interface |-> TRUE,
                    default_domain_resolver |->
                        [server |-> "dns-remote", strategy |-> "prefer_ipv4"],
                    rules |-> RouteRules,
                    final |-> "vless-out"]]

\* net/url: the bytes no mode escapes, and the bytes '$&+,/:;=?@' and
\* "!$&'()*+,;=:[]<>" a mode may leave as they are
URLUnreserved ==
    Range(UpperAlpha) \cup Range(LowerAlpha) \cup Range(Digits)
    \cup {"-", "_", ".", "~"}
URLReserved == {"$", "&", "+", ",", "/", ":", ";", "=", "?", "@"}
URLHostBytes ==
    {"!", "$", "&", "'", "(", ")", "*", "+", ",", ";", "=", ":", "[", "]",
     "<", ">", "\""}

\* net/url shouldEscape(c, mode)
shouldEscape(c, mode) ==
    IF c \in URLUnreserved THEN FALSE
    ELSE IF mode = "encodeHost" /\ c \in URLHostBytes THEN FALSE
    ELSE IF c \in URLReserved
    THEN CASE mode = "encodeUserPassword" -> c \in {"@", "/", "?", ":"}
           [] mode = "encodeQueryComponent" -> TRUE
           [] mode = "encodeFragment" -> FALSE
           [] OTHER -> TRUE
    ELSE IF mode = "encodeFragment" /\ c \in {"!", "(", ")", "*"} THEN FALSE
    ELSE TRUE

\* '%' and the two upper-case hexadecimal digits of a byte
PercentCodes ==
    [c \in {" ", "\t", "%", "#", "[", "]", "\""} \cup URLReserved
           \cup URLHostBytes |->
        CASE c = " " -> <<"%","2","0">>    [] c = "\t" -> <<"%","0","9">>
          [] c = "%" -> <<"%","2","5">>    [] c = "#" -> <<"%","2","3">>
          [] c = "[" -> <<"%","5","B">>    [] c = "]" -> <<"%","5","D">>
          [] c = "\"" -> <<"%","2","2">>   [] c = "$" -> <<"%","2","4">>
          [] c = "&" -> <<"%","2","6">>    [] c = "+" -> <<"%","2","B">>
          [] c = "," -> <<"%","2","C">>    [] c = "/" -> <<"%","2","F">>
          [] c = ":" -> <<"%","3","A">>    [] c = ";" -> <<"%","3","B">>
          [] c = "=" -> <<"%","3","D">>    [] c = "?" -> <<"%","3","F">>
          [] c = "@" -> <<"%","4","0">>    [] c = "!" -> <<"%","2","1">>
          [] c = "'" -> <<"%","2","7">>    [] c = "(" -> <<"%","2","8">>
          [] c = ")" -> <<"%","2","9">>    [] c = "*" -> <<"%","2","A">>
          [] c = "<" -> <<"%","3","C">>    [] c = ">" -> <<"%","3","E">>]

\* net/url escape(s, mode): a space of a query component becomes '+'
RECURSIVE escape(_, _)
escape(s, mode) ==
    IF s = <<>> THEN <<>>
    ELSE (IF ~shouldEscape(Head(s), mode) THEN <<Head(s)>>
          ELSE IF Head(s) = " " /\ mode = "encodeQueryComponent" THEN <<"+">>
          ELSE PercentCodes[Head(s)])
         \o escape(Tail(s), mode)

\* net.JoinHostPort(host, port)
JoinHostPort(host, port) ==
    IF IndexByte(host, ":") > 0 \/ IndexByte(host, "%") > 0
    THEN <<"[">> \o host \o <<"]", ":">> \o port
    ELSE host \o <<":">> \o port

\* url.Values.Encode() of the pairs in kvs, which are sorted by key
RECURSIVE Encode(_)
Encode(kvs) ==
    IF kvs = <<>> THEN <<>>
    ELSE escape(Head(kvs)[1], "encodeQueryComponent") \o <<"=">>
         \o escape(Head(kvs)[2], "encodeQueryComponent")
         \o (IF Len(kvs) > 1 THEN <<"&">> ELSE <<>>) \o Encode(Tail(kvs))

S_vless == <<"v","l","e","s","s">>
S_allowInsecure == <<"a","l","l","o","w","I","n","s","e","c","u","r","e">>
S_encryption == <<"e","n","c","r","y","p","t","i","o","n">>
S_none == <<"n","o","n","e">>
S_path == <<"p","a","t","h">>
S_security == <<"s","e","c","u","r","i","t","y">>
S_tls == <<"t","l","s">>
S_sni == <<"s","n","i">>
S_type == <<"t","y","p","e">>
S_ws == <<"w","s">>

\* the query of buildClientShareURI, lines 637-647, in the order of the keys
ShareQuery(cfg) ==
    (IF cfg.ClientInsecureTLS THEN <<<<S_allowInsecure, <<"1">>>>>> ELSE <<>>)
    \o <<<<S_encryption, S_none>>, <<S_path, cfg.WebsocketPath>>,
         <<S_security, S_tls>>>>
    \o (IF TrimSpace(cfg.TLSServerName) # <<>>
        THEN <<<<S_sni, cfg.TLSServerName>>>> ELSE <<>>)
    \o <<<<S_type, S_ws>>>>

\* buildClientShareURI(cfg, c): url.URL{Scheme, User, Host, RawQuery,
\* Fragment}.String(); the UUID is a number here, written in decimal
buildClientShareURI(cfg, c) ==
    LET hp == resolveEndpointHostPort(cfg.EndpointHost, cfg.ListenPort)
    IN  S_vless \o <<":", "/", "/">>
        \o escape(Itoa(c.UUID), "encodeUserPassword") \o <<"@">>
        \o escape(JoinHostPort(hp.host, Itoa(hp.port)), "encodeHost")
        \o <<"?">> \o Encode(ShareQuery(cfg))
        \o <<"#">> \o escape(c.Name, "encodeFragment")

(***************************************************************************)
(* The functions of the manager on their own: one goroutine is inside one  *)
(* of them with arguments drawn from the sets below (given: the map it was *)
(* handed), and runs it to its end.                                        *)
(***************************************************************************)
\* longest name handed to sanitizeClientID
MaxNameLen == 3

\* characters of names: letters of both cases, a digit, white space, the
\* separators "-", "." and "_", a character the pattern rejects, and letters
\* outside ASCII
NameAlphabet == {"a", "Z", "7", " ", "-", ".", "_", "/", "é", "É"}

Names == UNION {[1..k -> NameAlphabet] : k \in 0..MaxNameLen}

\* a complete record under id
FullRecord(id) == Client(id, id, 1, 1, ClientConfigPath(id), Now)

\* the map that holds a complete record under each of the ids
MapOf(ids) == [id \in ids |-> FullRecord(id)]

\* The keys of a map handed to allocateClientIDLocked, in short: the slug
\* and its suffixes -2 .. -upto (upto 0: not even the slug), and the ids in
\* more.
KeySet(base, keys) ==
    (IF keys.upto >= 1 THEN {base} ELSE {})
    \cup {Candidate(base, i) : i \in 2..keys.upto} \cup keys.more

\* maps for allocateClientIDLocked: no key, the slug, the slug and its first
\* suffix, the slug and every suffix the loop tries
AllocKeys ==
    {[upto |-> n, more |-> {}] : n \in {0, 1, 2, AllocLimit - 1}}

\* names handed to createClientLocked, and the slugs they have
AllocNames == {<<"a">>, <<" ", "Z">>}

FnCall(op, arg, clients, keys, todo) ==
    [Idle EXCEPT !.op = op, !.arg = arg, !.clients = clients,
                 !.given = clients, !.keys = keys, !.todo = todo]

SanitizeCalls ==
    {FnCall("sanitizeClientID", n, EmptyMap, Idle.keys, <<"sanitize">>) :
        n \in Names}

\* two creates of the same name, one after the other
AllocCalls ==
    {FnCall("allocateClientIDLocked", n, EmptyMap, ks, <<"allocate", "allocate">>) :
        n \in AllocNames, ks \in AllocKeys}

\* what clients.json can hold when loadClientsLocked reads it: nothing (no
\* file), no byte, white space, text that is not JSON, the literal null, a
\* server document, a client document, a map with a record to heal, a map of
\* complete records
LoadFiles ==
    {EmptyMap}
    \cup {PutFile(EmptyMap, statePath, c) :
            c \in {Blank, WhiteSpaceOnly, Garbage, NullJSON,
                   buildServerConfigMap(<<FullRecord(<<"a">>)>>),
                   buildClientConfigMap(FullRecord(<<"a">>)),
                   ClientsJSON([id \in {<<"a">>} |-> RawRecord]),
                   ClientsJSON(MapOf({<<"a">>, <<"b">>}))}}

LoadCall == FnCall("loadClientsLocked", <<>>, EmptyMap, Idle.keys, <<"load">>)

\* records for saveClientsLocked under the key id: every field empty or set,
\* the id also set to something else than the key, the name also white space
RecordVariants(id) ==
    {Client(i, n, u, a, p, c) :
        i \in {<<>>, id, <<"x">>}, n \in {<<>>, <<" ">>, <<"A", "\"">>, <<"\\", "n">>},
        u \in {0, 1}, a \in {0, 1, 7},
        p \in {NoPath, ClientConfigPath(<<"q">>)}, c \in {0, Now + 1}}

RoundTripMaps ==
    {[id \in {<<"a">>} |-> r] : r \in RecordVariants(<<"a">>)}
    \cup {[id \in {<<"a">>, <<"b">>} |->
             IF id = <<"a">> THEN RawRecord ELSE FullRecord(<<"b">>)]}

\* saveClientsLocked(m), then loadClientsLocked()
SaveLoadCalls ==
    {FnCall("saveClientsLocked", <<>>, m, Idle.keys, <<"save", "load">>) :
        m \in RoundTripMaps}

\* keys of clients.json: a name, the empty string, white space
ReloadKeys == {<<"a">>, <<>>, <<" ">>}

\* clients.json of one record, of any of the variants, of two records, or
\* of none
ReloadFiles ==
    {PutFile(EmptyMap, statePath, ClientsJSON(m)) :
        m \in {[id \in {k} |-> r] : k \in ReloadKeys, r \in RecordVariants(<<"a">>)}
              \cup {mm \in RoundTripMaps : Cardinality(DOMAIN mm) = 2}
              \cup {EmptyMap}}

\* loadClientsLocked() twice
ReloadCall ==
    FnCall("loadClientsLocked twice", <<>>, EmptyMap, Idle.keys, <<"load", "load">>)

\* the API token of the Config: LoadConfig trims API_TOKEN, "" when unset
S_token == <<"s", "3">>
APITokens == {<<>>, S_token}

\* paths of requests
Paths == {"/status", "/status/", "/clients"}

\* Authorization headers, each with the token it presents as a Bearer token
\* (<<>>: none): no header, the token, the scheme in lower case and more
\* white space, another token, the scheme alone, another scheme, the token
\* without a scheme
AuthOf(text, bearer) == [text |-> text, bearer |-> bearer]

Authorizations ==
    {AuthOf(<<>>, <<>>),
     AuthOf(<<"B","e","a","r","e","r"," ">> \o S_token, S_token),
     AuthOf(<<"b","e","a","r","e","r"," "," ">> \o S_token, S_token),
     AuthOf(<<"B","e","a","r","e","r"," ","x">>, <<"x">>),
     AuthOf(<<"B","e","a","r","e","r">>, <<>>),
     AuthOf(<<"B","a","s","i","c"," ">> \o S_token, <<>>),
     AuthOf(S_token, <<>>)}

\* X-API-Token headers: absent, the token, another token
XAPITokens == {<<>>, S_token, <<"x">>}

\* remote addresses, each with what it is: loopback, private, link-local or
\* none of these (local FALSE)
Remote(text, local) == [text |-> text, local |-> local]

RemoteAddrs ==
    {Remote(<<"1","2","7",".","0",".","0",".","1",":","8","0">>, TRUE),
     Remote(<<"1","2","7",".","9",".","9",".","9",":","8","0">>, TRUE),
     Remote(<<"1","9","2",".","1","6","8",".","1",".","1","0",":","8","0">>, TRUE),
     Remote(<<"1","0",".","0",".","0",".","1",":","8","0">>, TRUE),
     Remote(<<"1","7","2",".","3","1",".","0",".","1",":","8","0">>, TRUE),
     Remote(<<"1","7","2",".","3","2",".","0",".","1",":","8","0">>, FALSE),
     Remote(<<"1","6","9",".","2","5","4",".","1",".","1",":","8","0">>, TRUE),
     Remote(<<"8",".","8",".","8",".","8",":","5","3">>, FALSE),
     Remote(<<"1","2","8",".","0",".","0",".","1",":","8","0">>, FALSE),
     Remote(<<"[",":",":","1","]",":","8","0">>, TRUE),
     Remote(<<"[","f","e","8","0",":",":","1","]",":","8","0">>, TRUE),
     Remote(<<"[","F","D","0","0",":",":","1","]",":","8","0">>, TRUE),
     Remote(<<"[",":",":","f","f","f","f",":","1","0",".","0",".","0",".","1","]",":","8","0">>, TRUE),
     Remote(<<"[","2","0","0","1",":","d","b","8",":",":","1","]",":","8","0">>, FALSE),
     Remote(<<"[",":",":","2","]",":","8","0">>, FALSE),
     Remote(<<>>, FALSE),
     Remote(<<"@">>, FALSE)}

\* a request served by the handler apiAuthMiddleware(apiToken, next) returns
AuthCalls ==
    {FnCall("apiAuthMiddleware",
            [apiToken |-> tok, path |-> p, auth |-> a, x |-> x, remote |-> ra],
            EmptyMap, Idle.keys, <<"auth">>) :
        tok \in APITokens, p \in Paths, a \in Authorizations,
        x \in XAPITokens, ra \in RemoteAddrs}

\* hosts of endpoints, each with what it is ("name", "v4" or "v6") and, for
\* an address, the address in canonical text with the prefix length of a
\* single host
HostOf(text, is, cidr) == [text |-> text, is |-> is, cidr |-> cidr]

EndpointHosts ==
    {HostOf(<<>>, "name", <<>>),
     HostOf(<<"v",".","i","o">>, "name", <<>>),
     HostOf(<<"v","p","n",".","e","x","a","m","p","l","e",".","c","o","m">>,
            "name", <<>>),
     HostOf(<<"1","1","1",".","8","8",".","1","4","1",".","2","2","6">>, "v4",
            <<"1","1","1",".","8","8",".","1","4","1",".","2","2","6","/","3","2">>),
     HostOf(<<":",":","1">>, "v6", <<":",":","1","/","1","2","8">>),
     HostOf(<<"2","0","0","1",":","D","B","8",":","0",":","0",":","0",":","0",":","0",":","1">>,
            "v6", <<"2","0","0","1",":","d","b","8",":",":","1","/","1","2","8">>),
     HostOf(<<":",":","f","f","f","f",":","1",".","2",".","3",".","4">>, "v6",
            <<"1",".","2",".","3",".","4","/","3","2">>)}

\* what follows the host: nothing (colon FALSE) or a colon and a text, with
\* the number the text is when it is a decimal number above zero (else 0)
PortOf(colon, text, number) == [colon |-> colon, text |-> text, number |-> number]

EndpointPorts ==
    {PortOf(FALSE, <<>>, 0),
     PortOf(TRUE, <<"8","4","4","3">>, 8443),
     PortOf(TRUE, <<"+","7">>, 7),
     PortOf(TRUE, <<"7","0","0","0","0">>, 70000),
     PortOf(TRUE, <<"0">>, 0),
     PortOf(TRUE, <<"-","5">>, 0),
     PortOf(TRUE, <<"x">>, 0),
     PortOf(TRUE, <<>>, 0)}

\* white space around the endpoint
Pads == {<<>>, <<" ">>}

\* an endpoint string: host or [host], then the port if there is one, in
\* white space or not (bare: without it)
EndpointOf(pad, h, bracket, p) ==
    LET bare == (IF bracket THEN <<"[">> \o h.text \o <<"]">> ELSE h.text)
                \o (IF p.colon THEN <<":">> \o p.text ELSE <<>>)
    IN  [text |-> pad \o bare \o pad, bare |-> bare,
         host |-> h, bracket |-> bracket, port |-> p]

\* an IPv6 address stands in brackets before a port, the other hosts never
Endpoints ==
    {EndpointOf(pad, h, b, p) :
        pad \in Pads, h \in EndpointHosts, b \in BOOLEAN , p \in EndpointPorts}
    \ {e \in {EndpointOf(pad, h, b, p) :
                pad \in Pads, h \in EndpointHosts, b \in BOOLEAN ,
                p \in EndpointPorts} :
          \/ e.bracket /\ e.host.is # "v6"
          \/ ~e.bracket /\ e.host.is = "v6" /\ e.port.colon}

\* cfg.ListenPort
ListenPorts == {443, 8443}

ResolveCalls ==
    {FnCall("resolveEndpointHostPort", [endpoint |-> e, fallbackPort |-> fb],
            EmptyMap, Idle.keys, <<"resolve">>) :
        e \in Endpoints, fb \in ListenPorts}

\* the items of a comma-separated list, each with the white space before
\* and after its text
TunItem(before, text, after) == [before |-> before, text |-> text, after |-> after]

TunItems ==
    {TunItem(b, x, a) :
        b \in Pads, a \in Pads,
        x \in {<<>>, S_default_tun,
               <<"1","0",".","1","0",".","0",".","1","/","3","0">>}}

MaxTunItems == 2

TunLists == UNION {[1..n -> TunItems] : n \in 0..MaxTunItems}

\* the list as the environment gives it
RECURSIVE JoinCSV(_)
JoinCSV(items) ==
    IF items = <<>> THEN <<>>
    ELSE Head(items).before \o Head(items).text \o Head(items).after
         \o (IF Len(items) > 1 THEN <<",">> ELSE <<>>) \o JoinCSV(Tail(items))

\* the arguments of buildClientConfigMap and of buildClientShareURI: the
\* Config of endpoint e and listen port fb, and the client
BuildArg(e, fb, ws, sni, insecure, tun, c) ==
    [endpoint |-> e, fallbackPort |-> fb, tun |-> tun, c |-> c,
     cfg |-> [Config(e.text, fb) EXCEPT
                !.WebsocketPath = ws, !.TLSServerName = sni,
                !.ClientInsecureTLS = insecure,
                !.ClientTunCIDR = JoinCSV(tun)]]

DefaultTun == <<TunItem(<<>>, S_default_tun, <<>>)>>

DefaultArg(e, fb) ==
    BuildArg(e, fb, S_vpn_path, e.text, TRUE, DefaultTun, FullRecord(<<"a">>))

BuildClientCalls ==
    {FnCall("buildClientConfigMap", DefaultArg(e, fb),
            EmptyMap, Idle.keys, <<"buildclient">>) :
        e \in Endpoints, fb \in ListenPorts}
    \cup {FnCall("buildClientConfigMap",
                 [DefaultArg(e, 443) EXCEPT
                    !.tun = tun, !.cfg.ClientTunCIDR = JoinCSV(tun)],
                 EmptyMap, Idle.keys, <<"buildclient">>) :
            e \in {e \in Endpoints : e.text = <<"v",".","i","o">>},
            tun \in TunLists}

\* the endpoints LoadConfig can give: trimmed and not empty; here those
\* without a port, with ":8443" and with ":"
ShareEndpoints ==
    {e \in Endpoints :
        /\ e.text = e.bare /\ e.bare # <<>>
        /\ e.port.text \in {<<>>, <<"8","4","4","3">>}}

\* normalizeWebsocketPath gives a trimmed path that starts with "/"
WebsocketPaths == {S_vpn_path, <<"/","w"," ","s","&","x","=","1">>}

ShareClients ==
    {FullRecord(<<"a">>),
     Client(<<"b">>, <<"B"," ","b">>, 2, 2, ClientConfigPath(<<"b">>), Now)}

\* the client document and the share URI of one Config and client, as the
\* handlers of the API produce them for one response; the TLS server name
\* is the endpoint (LoadConfig's default), another name, or not set
ShareCalls ==
    {FnCall("buildClientShareURI",
            BuildArg(e, 443, ws, sni, insecure, DefaultTun, c),
            EmptyMap, Idle.keys, <<"buildclient", "shareuri">>) :
        e \in ShareEndpoints, ws \in WebsocketPaths,
        sni \in {<<>>, <<"v",".","i","o">>} \cup {e.text : e \in ShareEndpoints},
        insecure \in BOOLEAN , c \in ShareClients}

FnJob(call, files) == [call |-> call, fs |-> files]

FnJobs ==
    {FnJob(call, EmptyMap) :
        call \in SanitizeCalls \cup AllocCalls \cup SaveLoadCalls \cup AuthCalls
                 \cup ResolveCalls \cup BuildClientCalls \cup ShareCalls}
    \cup {FnJob(LoadCall, f) : f \in LoadFiles}
    \cup {FnJob(ReloadCall, f) : f \in ReloadFiles}

\* the goroutine that runs the function
FnCaller == CallerOrder[1]

InitFn ==
    /\ mu = TRUE
    /\ serverCmd = 0
    /\ procs = <<>>
    /\ \E job \in FnJobs :
          /\ th = [t \in Callers |-> IF t = FnCaller THEN job.call ELSE Idle]
          /\ fs = job.fs
    /\ rnd = 1
    /\ ops = 0
    /\ faults = 0
    /\ last = NoResult

\* sanitizeClientID(name)
Sanitize(t) ==
    /\ At(t, "sanitize")
    /\ th' = [th EXCEPT ![t].c = [NoClient EXCEPT !.ID = sanitizeClientID(th[t].arg)],
                        ![t].todo = Tail(@)]
    /\ UNCHANGED <<mu, serverCmd, fs, procs, rnd, ops, faults, last>>

\* the map the goroutine holds
HeldMap(r) == MapOf(KeySet(sanitizeClientID(r.arg), r.keys))

\* createClientLocked, lines 294-313: the id is allocated, the record built
\* and put in the map
AllocateInsert(t) ==
    /\ At(t, "allocate")
    /\ LET c == NewClient(th[t].arg, HeldMap(th[t]), rnd + 1)
       IN  th' = [th EXCEPT ![t].c = c,
                            ![t].keys.more = @ \cup {c.ID},
                            ![t].todo = Tail(@)]
    /\ rnd' = rnd + 1
    /\ UNCHANGED <<mu, serverCmd, fs, procs, ops, faults, last>>

\* saveClientsLocked(clients) begins
Save(t) ==
    /\ At(t, "save")
    /\ StartWrite(t, [th[t] EXCEPT !.todo = Tail(@)], statePath,
                  ClientsJSON(Normalize(th[t].clients)))
    /\ UNCHANGED <<mu, serverCmd, procs, rnd, ops, faults, last>>

\* the request is served
Auth(t) ==
    /\ At(t, "auth")
    /\ LET a == th[t].arg
       IN  th' = [th EXCEPT
                    ![t].raw = apiAuthMiddleware(
                                   a.apiToken,
                                   Request(a.path, a.auth.text, a.x, a.remote.text)),
                    ![t].todo = Tail(@)]
    /\ UNCHANGED <<mu, serverCmd, fs, procs, rnd, ops, faults, last>>

\* resolveEndpointHostPort(rawHost, fallbackPort)
Resolve(t) ==
    /\ At(t, "resolve")
    /\ LET hp == resolveEndpointHostPort(th[t].arg.endpoint.text,
                                         th[t].arg.fallbackPort)
       IN  th' = [th EXCEPT
                    ![t].raw = [kind |-> "hostport", host |-> hp.host,
                                port |-> hp.port],
                    ![t].todo = Tail(@)]
    /\ UNCHANGED <<mu, serverCmd, fs, procs, rnd, ops, faults, last>>

\* buildClientConfigMap(cfg, c)
BuildClient(t) ==
    /\ At(t, "buildclient")
    /\ th' = [th EXCEPT
                ![t].raw = buildClientConfigMapFor(th[t].arg.cfg, th[t].arg.c),
                ![t].todo = Tail(@)]
    /\ UNCHANGED <<mu, serverCmd, fs, procs, rnd, ops, faults, last>>

\* buildClientShareURI(cfg, c); the text goes to list
ShareURI(t) ==
    /\ At(t, "shareuri")
    /\ th' = [th EXCEPT
                ![t].list = buildClientShareURI(th[t].arg.cfg, th[t].arg.c),
                ![t].todo = Tail(@)]
    /\ UNCHANGED <<mu, serverCmd, fs, procs, rnd, ops, faults, last>>

NextFn ==
    \E t \in Callers :
        \/ Sanitize(t) \/ AllocateInsert(t) \/ Save(t) \/ Load(t)
        \/ WriteFileDone(t) \/ Rename(t)
        \/ Auth(t) \/ Resolve(t) \/ BuildClient(t) \/ ShareURI(t)

SpecFn == InitFn /\ [][NextFn]_vars

(***************************************************************************)
(* Properties.                                                             *)
(***************************************************************************)
\* the map a load of the files f would decode, and whether it would fail
Persisted(f) ==
    IF statePath \notin DOMAIN f \/ IsBlank(f[statePath])
    THEN [err |-> FALSE, isNil |-> FALSE, clients |-> EmptyMap]
    ELSE Unmarshal(f[statePath])

\* paths that writeSecretFile uses as temp files
IsTmp(p) ==
    Len(p.file) >= Len(S_tmp)
    /\ SubSeq(p.file, Len(p.file) - Len(S_tmp) + 1, Len(p.file)) = S_tmp

\* the goroutines inside the section m.mu protects
InSection ==
    {t \in Callers : th[t].held} \cup {p \in DOMAIN procs : procs[p].reaper = "in"}

\* C1: at most one of the callers of the public methods and of the reapers
\* is inside its lock-protected section at any time, and the mutex is locked
\* exactly when one is.
C1_MutualExclusion ==
    /\ Cardinality(InSection) <= 1
    /\ mu = (InSection # {})

\* C1 (witness): a caller is inside its section, in the middle of a file
\* write, while the reaper of an exited process waits for the mutex.
C1_Witness ==
    \E t \in Callers, p \in DOMAIN procs :
        /\ th[t].held
        /\ th[t].job.stage = "closed"
        /\ procs[p].state = "exited"
        /\ procs[p].reaper = "wait"

\* the record c is in the client map that a load of the files f returns
PersistedHas(f, c) ==
    /\ ~Persisted(f).err
    /\ c.ID \in DOMAIN Persisted(f).clients
    /\ Persisted(f).clients[c.ID].UUID = c.UUID

\* C2: a CreateClient that returns success leaves a persisted client map
\* that holds every record it held before and the new record, under an id
\* that no record had before.
C2_NoLostUpdates ==
    (last.op = "CreateClient" /\ last.err = "none") =>
        LET before == Persisted(last.pre.fs).clients
        IN  /\ last.c.ID \notin DOMAIN before
            /\ PersistedHas(fs, last.c)
            /\ DOMAIN Persisted(fs).clients = DOMAIN before \cup {last.c.ID}
            /\ \A id \in DOMAIN before :
                  before[id].UUID # 0 =>
                      Persisted(fs).clients[id].UUID = before[id].UUID

\* C3: the reaper of a process clears the handle if and only if the handle
\* refers to that process when the reaper holds the mutex; a handle that
\* refers to another process is left as it is.
C3_ReaperIdentity ==
    [][\A p \in DOMAIN procs :
          (procs[p].reaper = "in" /\ procs'[p].reaper = "done") =>
              serverCmd' = (IF serverCmd = p THEN 0 ELSE serverCmd)]_vars

\* C3 (witness): the reaper of an older process has run while the handle
\* referred to a newer one, and the handle still refers to it.
C3_Witness ==
    \E p \in DOMAIN procs :
        /\ procs[p].reaper = "done"
        /\ procs[p].found \notin {0, p}
        /\ serverCmd = procs[p].found

\* the handle at return refers to a process spawned during the call, and the
\* server document that process was started on lists the uuid of c
RunningNewWith(c) ==
    /\ last.cmd # 0
    /\ last.cmd > last.pre.nprocs
    /\ procs[last.cmd].doc.kind = "server"
    /\ \E i \in DOMAIN procs[last.cmd].doc.users :
          procs[last.cmd].doc.users[i].uuid = c.UUID

\* C4 (as claimed): whenever CreateClient, called while the data plane is
\* running, has created the client (its record is in clients.json when the
\* call returns), the data plane is running a newly spawned process whose
\* server document lists the new uuid.
C4_RunningAfterCreate ==
    (/\ last.op = "CreateClient"
     /\ last.pre.cmd # 0
     /\ last.made # NoClient
     /\ PersistedHas(fs, last.made)) => RunningNewWith(last.made)

\* C4 (amended): whenever CreateClient, called while the data plane is
\* running, returns success, the handle refers to a newly spawned process
\* whose server document lists the new uuid.
C4_RunningAfterSuccessfulCreate ==
    (last.op = "CreateClient" /\ last.pre.cmd # 0 /\ last.err = "none")
        => RunningNewWith(last.c)

\* C4 (witness): a successful CreateClient that replaced the running process.
C4_Witness ==
    /\ last.op = "CreateClient"
    /\ last.err = "none"
    /\ last.pre.cmd # 0
    /\ last.cmd > last.pre.cmd
    /\ procs[last.pre.cmd].killed # "no"

\* the files that are not temp files
Targets(f) == {p \in DOMAIN f : ~IsTmp(p)}

\* C5: in every step, a file that is not a temp file either keeps its
\* content or, by the rename that ends a writeSecretFile, takes the complete
\* content that write was given; it never disappears and never holds a
\* prefix.  Every reachable state is a state a crash can leave behind.
C5_AtomicFiles ==
    [][\A p \in Targets(fs) \cup Targets(fs') :
          /\ p \in DOMAIN fs'
          /\ fs'[p] # Prefix
          /\ \/ (p \in DOMAIN fs /\ fs'[p] = fs[p])
             \/ \E t \in Callers :
                   /\ th[t].job.stage = "closed"
                   /\ th[t].job.path = p
                   /\ fs[TmpPath(p)] = th[t].job.content
                   /\ fs'[p] = th[t].job.content]_vars

\* C5 (witness): in the middle of a write that replaces an existing file
\* (the temp file holds a prefix), the target holds its previous content.
C5_Witness ==
    \E t \in Callers :
        /\ th[t].job.stage = "open"
        /\ th[t].job.old # Missing
        /\ th[t].job.old # th[t].job.content
        /\ fs[TmpPath(th[t].job.path)] = Prefix
        /\ fs[th[t].job.path] = th[t].job.old

\* C6 (as claimed): when a method returns a write error, every file that is
\* not a temp file holds what it held when the method began.
C6_UntouchedOnWriteError ==
    (last.err = "io") =>
        \A p \in Targets(fs) \cup Targets(last.pre.fs) :
            Content(fs, p) = Content(last.pre.fs, p)

\* C6 (amended): when a method returns a write error, the file whose write
\* failed holds what it held when that write began.
C6_FailedWriteLeavesTarget ==
    (last.err = "io" /\ last.failed.path # NoPath) =>
        Content(fs, last.failed.path) = last.failed.old

\* C6 (witness): the write of server.json failed and left server.json as it
\* was, after the same method had replaced clients.json.
C6_Witness ==
    /\ last.err = "io"
    /\ last.failed.path = serverConfigPath
    /\ Content(fs, serverConfigPath) = last.failed.old
    /\ Content(fs, statePath) # Content(last.pre.fs, statePath)

\* C7: when CreateClient returns the reload error, the new record is in
\* clients.json: a load returns it.
C7_DurableOnReloadError ==
    (last.op = "CreateClient" /\ last.err = "reload") =>
        PersistedHas(fs, last.made)

\* C8: when the spawn fails, the method returns the error (StartInterface
\* the spawn error; CreateClient, and InitState when it bootstraps the default
\* client, the reload error), the handle is empty and neither a process nor a
\* reaper has been added.
C8_SpawnFailureLeavesStopped ==
    (last.err \in {"spawn", "reload"}) =>
        /\ last.err = "spawn" => last.op = "StartInterface"
        /\ last.err = "reload" => last.op \in {"CreateClient", "InitState"}
        /\ last.cmd = 0
        /\ serverCmd = 0
        /\ Len(procs) = last.pre.nprocs

\* C8 (witness): StartInterface has returned the spawn error.
C8_Witness ==
    /\ last.op = "StartInterface"
    /\ last.err = "spawn"
    /\ last.pre.cmd = 0

\* C9: StopInterface returns success with the handle empty, and the process
\* the handle referred to has been signalled.
C9_StopClearsHandle ==
    (last.op = "StopInterface") =>
        /\ last.err = "none"
        /\ last.cmd = 0
        /\ serverCmd = 0
        /\ last.pre.cmd # 0 => procs[last.pre.cmd].killed # "no"

\* C9 (witness): StopInterface has returned after stopping a process that
\* had already exited and whose reaper had not run.
C9_Witness ==
    /\ last.op = "StopInterface"
    /\ last.pre.cmd # 0
    /\ procs[last.pre.cmd].killed = "exited"
    /\ last.cmd = 0

\* the handle, the processes and the signals sent are as they were when the
\* method took the mutex
SupervisorUntouched ==
    /\ last.cmd = last.pre.cmd
    /\ Len(procs) = last.pre.nprocs
    /\ Signalled = last.pre.killed

\* C10 (as claimed): StartInterface on a running data plane and StopInterface
\* on a stopped one return success and leave the handle and the processes
\* alone.
C10_IdempotentStartStop ==
    /\ (last.op = "StartInterface" /\ last.pre.cmd # 0) =>
          (last.err = "none" /\ SupervisorUntouched)
    /\ (last.op = "StopInterface" /\ last.pre.cmd = 0) =>
          (last.err = "none" /\ SupervisorUntouched)

\* C10 (amended): both leave the handle and the processes alone;
\* StopInterface returns success; StartInterface returns success when the
\* load and the rewrite that precede its check succeed, and otherwise their
\* error.
C10_NoOpStartStop ==
    /\ (last.op = "StartInterface" /\ last.pre.cmd # 0) =>
          /\ SupervisorUntouched
          /\ last.err \in {"none", "read", "parse", "io"}
          /\ (faults = last.pre.faults /\ ~Persisted(last.pre.fs).err)
                => last.err = "none"
    /\ (last.op = "StopInterface" /\ last.pre.cmd = 0) =>
          /\ last.err = "none"
          /\ SupervisorUntouched
          /\ fs = last.pre.fs

\* C10 (witness): StartInterface has returned success on a running data
\* plane.
C10_Witness ==
    /\ last.op = "StartInterface"
    /\ last.pre.cmd # 0
    /\ last.err = "none"
    /\ last.cmd = last.pre.cmd

\* C11: a CreateClient that found the data plane not running leaves the
\* handle empty and has spawned and signalled no process, whatever it
\* returns; so it spawns or signals one only if the data plane was running.
C11_ReloadOnlyIfRunning ==
    (last.op = "CreateClient" /\ last.pre.cmd = 0) =>
        /\ last.cmd = 0
        /\ Len(procs) = last.pre.nprocs
        /\ Signalled = last.pre.killed

\* C11 (witness): CreateClient has returned success on a stopped data plane
\* and its record is in the store.
C11_Witness ==
    /\ last.op = "CreateClient"
    /\ last.err = "none"
    /\ last.pre.cmd = 0
    /\ last.cmd = 0
    /\ PersistedHas(fs, last.c)

\* the records of the store f: those a load of the files f decodes
Store(f) == IF Persisted(f).err THEN EmptyMap ELSE Persisted(f).clients

\* C12: no step removes a record from the client store, moves it to another
\* id or replaces a uuid it has: every record in the store before the step is
\* in the store after it, under the same id and with the same uuid.
C12_RecordsKept ==
    [][\A id \in DOMAIN Store(fs) :
          /\ id \in DOMAIN Store(fs')
          /\ Store(fs)[id].UUID # 0 => Store(fs')[id].UUID = Store(fs)[id].UUID]_vars

\* C13: the id createClientLocked allocates is not a key of the map it was
\* given: the insert that follows it adds a record and overwrites none.
C13_FreshID ==
    [][\A t \in Callers :
          (th[t].todo # <<>> /\ Head(th[t].todo) = "allocate" /\ th'[t] # th[t])
              => th'[t].c.ID \notin DOMAIN HeldMap(th[t])]_vars

\* C14: for every name, the id sanitizeClientID derives is not empty, holds
\* only characters of [a-z0-9._-] (so no upper-case letter), and is the value
\* the function gives for that name whenever it is applied.
C14_SanitizedID ==
    \A t \in Callers :
        (th[t].op = "sanitizeClientID" /\ th[t].todo = <<>>) =>
            /\ th[t].c.ID # <<>>
            /\ Range(th[t].c.ID) \subseteq IDChars
            /\ Range(th[t].c.ID) \cap Range(UpperAlpha) = {}
            /\ th[t].c.ID = sanitizeClientID(th[t].arg)

\* C14 (witness): a name made of a letter outside ASCII and separators has
\* got the id "client".
C14_Witness ==
    \E t \in Callers :
        /\ th[t].op = "sanitizeClientID"
        /\ th[t].todo = <<>>
        /\ th[t].arg = <<"É", "-", " ">>
        /\ th[t].c.ID = S_client

\* the goroutine has come back from the function op without a write under way
Returned(t, op) ==
    /\ th[t].op = op
    /\ th[t].job.stage = "none"
    /\ (th[t].todo = <<>> \/ th[t].err # "none")

\* C15: loadClientsLocked on a missing, an empty or a white-space file
\* returns the empty map and no error; on a file that does not decode as a
\* client map (text that is not JSON, a server or client document) it returns
\* the parse error and no map; in all these cases it writes nothing.
C15_LoadMissingBlankMalformed ==
    \A t \in Callers :
        Returned(t, "loadClientsLocked") =>
            LET c == Content(fs, statePath)
            IN  /\ c \in {Missing, Blank, WhiteSpaceOnly} =>
                      /\ th[t].err = "none"
                      /\ th[t].clients = EmptyMap
                      /\ ~th[t].isNil
                /\ c.kind \in {"garbage", "server", "clientdoc"} =>
                      /\ th[t].err = "parse"
                      /\ th[t].clients = EmptyMap
                /\ c.kind # "clients" => DOMAIN fs \subseteq {statePath}

\* C15 (witness): a load of a white-space file has returned the empty map.
C15_Witness ==
    \E t \in Callers :
        /\ Returned(t, "loadClientsLocked")
        /\ Content(fs, statePath) = WhiteSpaceOnly
        /\ th[t].err = "none"
        /\ th[t].clients = EmptyMap

\* record b is record a, given under the key id, up to normalization: the id
\* is the key; an empty (or white-space) name is the key, an empty uuid is a
\* fresh one, an empty address is the uuid, an empty config path is the path
\* of the key, a zero creation time is a later one; a field that was set is
\* the same
EqualUpToNormalization(id, a, b) ==
    /\ b.ID = id
    /\ b.Name = (IF TrimSpace(a.Name) = <<>> THEN id ELSE a.Name)
    /\ IF a.UUID = 0 THEN b.UUID # 0 ELSE b.UUID = a.UUID
    /\ b.Address = (IF a.Address = 0 THEN b.UUID ELSE a.Address)
    /\ b.ConfigPath = (IF a.ConfigPath = NoPath THEN ClientConfigPath(id)
                       ELSE a.ConfigPath)
    /\ IF a.CreatedAt = 0 THEN b.CreatedAt # 0 ELSE b.CreatedAt = a.CreatedAt

\* C18: saveClientsLocked of a non-empty map followed by loadClientsLocked
\* returns, without error, a map with the same keys whose records are the
\* saved ones up to normalization, and clients.json then decodes to that map.
C18_SaveLoadRoundTrip ==
    \A t \in Callers :
        Returned(t, "saveClientsLocked") =>
            /\ th[t].err = "none"
            /\ DOMAIN th[t].clients = DOMAIN th[t].given
            /\ \A id \in DOMAIN th[t].given :
                  EqualUpToNormalization(id, th[t].given[id], th[t].clients[id])
            /\ Store(fs) = th[t].clients

\* C18 (witness): a record saved with another id than its key, a name that
\* needs escaping and the other fields empty has come back with the key as
\* id, the name unchanged and the empty fields filled.
C18_Witness ==
    \E t \in Callers :
        /\ Returned(t, "saveClientsLocked")
        /\ th[t].given = [id \in {<<"a">>} |->
                            Client(<<"x">>, <<"A", "\"">>, 0, 0, NoPath, 0)]
        /\ th[t].clients[<<"a">>].ID = <<"a">>
        /\ th[t].clients[<<"a">>].Name = <<"A", "\"">>
        /\ th[t].clients[<<"a">>].UUID # 0

\* the content is there, is not blank and is not a JSON client map (text that
\* is not JSON, a server or a client document)
Malformed(content) ==
    /\ content.kind \notin {"missing", "blank", "null", "clients"}
    /\ ~(content.kind = "text" /\ TrimSpace(content.bytes) = <<>>)

\* the methods that load the store
Loaders ==
    {"InitState", "CreateClient", "GetStatus", "GetClientConfig", "StartInterface"}

\* C16: a method that loads the store and found clients.json malformed has
\* returned an error, has created no client, and has left clients.json,
\* server.json and every client document (every file but the TLS material
\* and its temp files) as they were.
C16_CorruptNeverRecovered ==
    (last.op \in Loaders /\ Malformed(Content(last.pre.fs, statePath))) =>
        /\ last.err # "none"
        /\ last.made = NoClient
        /\ \A p \in DOMAIN fs \cup DOMAIN last.pre.fs :
              p.dir # TLSCertPath.dir => Content(fs, p) = Content(last.pre.fs, p)

\* C16 (witness): InitState has returned the parse error on a clients.json
\* that is not JSON, after it generated the TLS material.
C16_Witness ==
    /\ last.op = "InitState"
    /\ last.err = "parse"
    /\ Content(last.pre.fs, statePath) = Garbage
    /\ Content(fs, statePath) = Garbage
    /\ ~(TLSKeyPath \in DOMAIN last.pre.fs)
    /\ TLSKeyPath \in DOMAIN fs

\* the goroutine is back from the load that opens its method, with the map
\* and no error, and has taken no step since
AfterLoad(t) ==
    /\ th[t].held
    /\ th[t].job.stage = "none"
    /\ th[t].err = "none"
    /\ th[t].todo # <<>>
    /\ \/ Head(th[t].todo) \in {"bootstrap", "status", "lookup"}
       \/ Head(th[t].todo) = "create" /\ th[t].op = "CreateClient"
       \/ Head(th[t].todo) = "rewrite" /\ th[t].op = "StartInterface"

\* every field of the record is set
Complete(c) ==
    /\ c.ID # <<>> /\ c.Name # <<>> /\ c.UUID # 0 /\ c.Address # 0
    /\ c.ConfigPath # NoPath /\ c.CreatedAt # 0

\* C17: when loadClientsLocked has returned a map, every record of it is
\* complete and clients.json decodes to that map as saveClientsLocked writes
\* it (each record under its key), so the values the load filled in (a fresh
\* uuid among them) are on disk; and a method whose write failed is on its
\* way out with the error.
C17_HealedMapPersisted ==
    \A t \in Callers :
        /\ AfterLoad(t) =>
              /\ Store(fs) = Normalize(th[t].clients)
              /\ \A id \in DOMAIN th[t].clients : Complete(th[t].clients[id])
        /\ th[t].failed.path # NoPath =>
              (th[t].err = "io" /\ th[t].todo = <<"ret">>)

\* C17 (witness): a load has returned a record whose uuid it generated, and
\* the record is in clients.json with that uuid.
C17_Witness ==
    \E t \in Callers :
        /\ AfterLoad(t)
        /\ <<"a">> \in DOMAIN Store(th[t].pre.fs)
        /\ Store(th[t].pre.fs)[<<"a">>].UUID = 0
        /\ th[t].clients[<<"a">>].UUID # 0
        /\ Store(fs)[<<"a">>].UUID = th[t].clients[<<"a">>].UUID

\* the TLS material in the files f
TLSMaterial(f) == <<Content(f, TLSCertPath), Content(f, TLSKeyPath)>>

\* the ids of the store f and the uuids they have
Identities(f) == [id \in DOMAIN Store(f) |-> Store(f)[id].UUID]

\* C19: an InitState that finds the TLS material in place leaves it as it
\* is; a successful InitState that finds a record in the store creates no
\* client and leaves the store with the same ids and uuids.  (The state after
\* a first successful InitState has both.)
C19_InitStateIdempotent ==
    /\ (last.op = "InitState"
        /\ Missing \notin {Content(last.pre.fs, TLSCertPath),
                           Content(last.pre.fs, TLSKeyPath)}) =>
          TLSMaterial(fs) = TLSMaterial(last.pre.fs)
    /\ (last.op = "InitState" /\ last.err = "none"
        /\ \E id \in DOMAIN Store(last.pre.fs) : Store(last.pre.fs)[id].UUID # 0) =>
          /\ last.made = NoClient
          /\ Identities(fs) = Identities(last.pre.fs)

\* the public methods
Methods == Loaders \cup {"StopInterface"}

\* no method is under way
Quiet == \A t \in Callers : th[t].op = "none"

\* C20: a successful InitState has created the default client exactly when
\* the store it loaded had no record; it leaves a store with a record; and a
\* successful method that finds a record in the store leaves a store with a
\* record.  (Stated when the method has returned and no other is under way.)
C20_StoreNeverEmpty ==
    /\ (last.op = "InitState" /\ last.err = "none") =>
          /\ (last.made # NoClient) <=> (DOMAIN Store(last.pre.fs) = {})
          /\ DOMAIN Store(fs) # {}
    /\ (last.op \in Methods /\ last.err = "none" /\ Quiet
        /\ DOMAIN Store(last.pre.fs) # {}) => DOMAIN Store(fs) # {}

\* the goroutine is about to release the mutex: at the deferred Unlock of a
\* method that returns, or at the Unlock of GetStatus
AtUnlock(t) ==
    /\ th[t].held
    /\ th[t].job.stage = "none"
    /\ th[t].todo # <<>>
    /\ Head(th[t].todo) \in {"ret", "status"}

\* server.json in the files f lists exactly one {name, uuid} entry per record
\* of the store
OneUserPerRecord(f) ==
    LET doc == Content(f, serverConfigPath)
    IN  /\ doc.kind = "server"
        /\ Len(doc.users) = Cardinality(DOMAIN Store(f))
        /\ \A id \in DOMAIN Store(f) :
              \E i \in DOMAIN doc.users :
                  doc.users[i] = [name |-> Store(f)[id].Name,
                                  uuid |-> Store(f)[id].UUID]

\* every record of the store of f has its client document at its config path
EveryClientDocument(f) ==
    \A id \in DOMAIN Store(f) :
        Content(f, Store(f)[id].ConfigPath) = buildClientConfigMap(Store(f)[id])

\* C21: a method that is about to return success and has changed the
\* persisted client map (it created a client, or its load healed a record)
\* leaves a server.json with exactly one {name, uuid} entry per record of
\* clients.json, and the client document of every record.
C21_DocumentsFollowStore ==
    \A t \in Callers :
        (AtUnlock(t) /\ th[t].err = "none"
         /\ Store(fs) # Store(th[t].pre.fs)) =>
            /\ OneUserPerRecord(fs)
            /\ EveryClientDocument(fs)

\* the files of f other than clients.json and its temp file
OtherFiles(f) == {p \in DOMAIN f : p \notin {statePath, TmpPath(statePath)}}

\* C22: a GetClientConfig whose id is not a key of the client store returns
\* no record and no config text and leaves every file but clients.json (which
\* its load may heal) as it was, so it writes no client document; when its
\* load succeeded, the error it returns is NotFound, and otherwise it is the
\* error of the load.
C22_NotFound ==
    (last.op = "GetClientConfig"
     /\ last.arg \notin DOMAIN Store(last.pre.fs)) =>
        /\ last.c = NoClient
        /\ last.raw = Blank
        /\ \A p \in OtherFiles(fs) \cup OtherFiles(last.pre.fs) :
              Content(fs, p) = Content(last.pre.fs, p)
        /\ last.err \in {"notfound", "read", "parse", "io"}
        /\ (faults = last.pre.faults /\ ~Persisted(last.pre.fs).err)
              => last.err = "notfound"

\* C22 (witness): GetClientConfig("z") has returned NotFound on a store that
\* holds the record "a", which its load healed.
C22_Witness ==
    /\ last.op = "GetClientConfig"
    /\ last.arg = <<"z">>
    /\ last.err = "notfound"
    /\ <<"a">> \in DOMAIN Store(last.pre.fs)
    /\ Store(fs) # Store(last.pre.fs)

\* the paths GetClientConfig(id) may write: clients.json (healed by the load)
\* and the document of the client, with their temp files
OwnPaths(id) ==
    {statePath, TmpPath(statePath),
     ClientConfigPath(id), TmpPath(ClientConfigPath(id))}

\* C23: a GetClientConfig for an id of the store, whatever it returns, leaves
\* the handle, the processes and the signals sent as they were, and leaves
\* server.json and every other client's document (every file but clients.json
\* and that client's document) unchanged.
C23_ReadForOneFrame ==
    (last.op = "GetClientConfig"
     /\ last.arg \in DOMAIN Store(last.pre.fs)) =>
        /\ SupervisorUntouched
        /\ \A p \in (DOMAIN fs \cup DOMAIN last.pre.fs) \ OwnPaths(last.arg) :
              Content(fs, p) = Content(last.pre.fs, p)

\* C23 (witness): GetClientConfig("a") has returned the document while the
\* data plane was running on a server.json, and both are as they were.
C23_Witness ==
    /\ last.op = "GetClientConfig"
    /\ last.arg = <<"a">>
    /\ last.err = "none"
    /\ last.pre.cmd # 0
    /\ serverCmd = last.pre.cmd
    /\ Content(fs, serverConfigPath).kind = "server"
    /\ Content(fs, serverConfigPath) = Content(last.pre.fs, serverConfigPath)

\* C24: when GetClientConfig returns success, the record it returns is the
\* record of the store under the id asked for, the text it returns is the
\* document synthesized from that record, and the client's document on disk
\* holds that text, whatever it held before (nothing, the document of an
\* earlier identity, or the same document).
C24_SelfHealingDocument ==
    (last.op = "GetClientConfig" /\ last.err = "none") =>
        /\ last.arg \in DOMAIN Store(fs)
        /\ last.c = Store(fs)[last.arg]
        /\ last.raw = buildClientConfigMap(last.c)
        /\ Content(fs, last.c.ConfigPath) = last.raw

\* C24 (witness): GetClientConfig("a") has returned the document of the
\* record where the file held the document of an earlier identity.
C24_Witness ==
    /\ last.op = "GetClientConfig"
    /\ last.err = "none"
    /\ Content(last.pre.fs, ClientConfigPath(<<"a">>)).kind = "clientdoc"
    /\ Content(last.pre.fs, ClientConfigPath(<<"a">>)) # last.raw
    /\ Content(fs, ClientConfigPath(<<"a">>)) = last.raw

\* C25: a successful GetStatus returns a list with one summary per record of
\* the store it loaded, in ascending order of id, each with the name and uuid
\* of the record (a fresh uuid where the record had none) and with the
\* address of the record, or the uuid where the record had no address; and
\* the running flag is the state of the handle when it held the mutex under
\* which it loaded the store.
C25_StatusList ==
    (last.op = "GetStatus" /\ last.err = "none") =>
        LET stored == Store(last.pre.fs)
        IN  /\ Len(last.list) = Cardinality(DOMAIN stored)
            /\ \A id \in DOMAIN stored :
                  \E i \in DOMAIN last.list :
                      LET s == last.list[i]
                      IN  /\ s.ID = id
                          /\ s.UUID # 0
                          /\ stored[id].UUID # 0 => s.UUID = stored[id].UUID
                          /\ s.Address = (IF stored[id].Address = 0 THEN s.UUID
                                          ELSE stored[id].Address)
            /\ \A i, j \in DOMAIN last.list :
                  i < j => StrLess(last.list[i].ID, last.list[j].ID)
            /\ last.running = (last.pre.cmd # 0)

\* C25 (witness): GetStatus has returned the summaries of two records, "a"
\* before "a-2", the first with the uuid its load generated as its address.
C25_Witness ==
    /\ last.op = "GetStatus"
    /\ last.err = "none"
    /\ Len(last.list) = 2
    /\ last.list[1].ID = <<"a">>
    /\ last.list[2].ID = <<"a", "-", "2">>
    /\ last.list[1].Address = last.list[1].UUID

\* the goroutine is inside createClientLocked, past the insert of its record
InCreate(t) ==
    /\ th[t].op \in {"CreateClient", "InitState"}
    /\ th[t].c # NoClient

\* the step is the rename that ends the goroutine's write of content of the
\* kind k
Renames(t, k) ==
    /\ th[t].job.stage = "closed"
    /\ th[t].job.content.kind = k
    /\ fs' = RenameOver(fs, th[t].job.path, th[t].job.content)
    /\ th'[t].job = NoJob

\* server.json in f lists the uuid of c
ServerLists(f, c) ==
    /\ Content(f, serverConfigPath).kind = "server"
    /\ \E i \in DOMAIN Content(f, serverConfigPath).users :
          Content(f, serverConfigPath).users[i] = [name |-> c.Name, uuid |-> c.UUID]

\* C26: a goroutine inside createClientLocked holds the mutex, and its steps
\* come in this order: server.json is replaced only when clients.json holds
\* the new record; a client document is put in place only when server.json
\* lists the new user; the running process is stopped only when server.json
\* lists the new user and every record of the map has its document; the new
\* process is spawned only when the handle is empty and the old process has
\* been signalled and killed, and it starts on a server.json that lists the
\* new user.
C26_ReloadOrder ==
    [][\A t \in Callers : InCreate(t) =>
          /\ th[t].held /\ mu
          /\ Renames(t, "server") => PersistedHas(fs, th[t].c)
          /\ Renames(t, "clientdoc") => ServerLists(fs, th[t].c)
          /\ (At(t, "reload") /\ serverCmd # 0 /\ serverCmd' = 0) =>
                /\ ServerLists(fs, th[t].c)
                /\ \A id \in DOMAIN th[t].clients :
                      Content(fs, th[t].clients[id].ConfigPath)
                          = buildClientConfigMap(th[t].clients[id])
                /\ procs'[serverCmd].killed # "no"
          /\ (At(t, "restart") /\ Len(procs') > Len(procs)) =>
                /\ serverCmd = 0
                /\ th[t].pre.cmd # 0
                /\ procs[th[t].pre.cmd].killed # "no"
                /\ serverCmd' = Len(procs')
                /\ procs'[serverCmd'].doc = Content(fs, serverConfigPath)
                /\ ServerLists(fs, th[t].c)]_vars

\* C26 (witness): a CreateClient is between the stop and the spawn: the old
\* process was signalled while alive, the handle is empty, and server.json
\* and clients.json hold the new client.
C26_Witness ==
    \E t \in Callers :
        /\ th[t].op = "CreateClient"
        /\ At(t, "restart")
        /\ serverCmd = 0
        /\ th[t].pre.cmd # 0
        /\ procs[th[t].pre.cmd].killed = "alive"
        /\ ServerLists(fs, th[t].c)
        /\ PersistedHas(fs, th[t].c)

\* the reaper of process p waits for the mutex
ReaperWaits(p) ==
    /\ p \in DOMAIN procs
    /\ procs[p].state = "exited"
    /\ procs[p].reaper = "wait"

\* the reaper of process p has held the mutex and released it
ReaperDone(p) ==
    /\ p \in DOMAIN procs
    /\ procs[p].reaper = "done"

\* C27: a goroutine that holds the mutex can always take a step of its own,
\* whatever the processes and their reapers do, and releases the mutex; the
\* mutex, once held, becomes free, so Lock returns for whoever waits in it; and
\* the reaper of a process that has exited gets the mutex and releases it.
C27_NoDeadlock ==
    /\ \A t \in Callers : [](th[t].held => ENABLED Step(t))
    /\ \A t \in Callers : th[t].held ~> ~th[t].held
    /\ mu ~> ~mu
    /\ \A p \in ProcIDs : ReaperWaits(p) ~> ReaperDone(p)

\* C27 (witness): a StopInterface holds the mutex after it has signalled a
\* process that has already exited and whose reaper waits for the mutex.
C27_Witness ==
    \E t \in Callers, p \in DOMAIN procs :
        /\ th[t].op = "StopInterface"
        /\ th[t].held
        /\ th[t].todo = <<"ret">>
        /\ procs[p].killed = "exited"
        /\ ReaperWaits(p)

\* the handler apiAuthMiddleware returns has served the request of t
AuthDone(t) == th[t].op = "apiAuthMiddleware" /\ th[t].todo = <<>>

ResolveDone(t) == th[t].op = "resolveEndpointHostPort" /\ th[t].todo = <<>>

\* a port written in digits
IsPortNumber(p) ==
    p.colon /\ p.text # <<>> /\ \A i \in DOMAIN p.text : p.text[i] \in Range(Digits)

\* C29 (as stated): resolution always returns a host and a port; an empty
\* string gives 127.0.0.1 and the fallback port; a string with a port written
\* in it gives the host and that port; any other string is the host as a
\* whole, with the fallback port (white space around the string aside).
C29_ExplicitPort ==
    \A t \in Callers :
        ResolveDone(t) =>
            LET e == th[t].arg.endpoint
                fb == th[t].arg.fallbackPort
                r == th[t].raw
            IN  /\ r.kind = "hostport"
                /\ IF e.bare = <<>>
                   THEN r.host = S_loopback /\ r.port = fb
                   ELSE IF IsPortNumber(e.port)
                   THEN r.host = e.host.text /\ r.port = Atoi(e.port.text)
                   ELSE r.host = e.bare /\ r.port = fb

\* C29 (amended): resolution always returns a host and a port; an empty or
\* blank string gives 127.0.0.1 and the fallback port; a string of the form
\* host:port or [host]:port gives that host, with that port when it is a
\* decimal number above zero and with the fallback port when it is not (empty,
\* not a number, zero, negative); any other string is the host as a whole,
\* with the fallback port (white space around the string aside).
C29_HostPortForm ==
    \A t \in Callers :
        ResolveDone(t) =>
            LET e == th[t].arg.endpoint
                fb == th[t].arg.fallbackPort
                r == th[t].raw
            IN  /\ r.kind = "hostport"
                /\ IF e.bare = <<>>
                   THEN r.host = S_loopback /\ r.port = fb
                   ELSE IF e.port.colon
                   THEN /\ r.host = e.host.text
                        /\ r.port = IF e.port.number > 0 THEN e.port.number
                                    ELSE fb
                   ELSE r.host = e.bare /\ r.port = fb

\* C29 (witness): "vpn.example.com:0" with fallback 443 has given
\* vpn.example.com and 443.
C29_Witness ==
    \E t \in Callers :
        /\ ResolveDone(t)
        /\ th[t].arg.endpoint.text =
               <<"v","p","n",".","e","x","a","m","p","l","e",".","c","o","m",":","0">>
        /\ th[t].arg.fallbackPort = 443
        /\ th[t].raw.host = <<"v","p","n",".","e","x","a","m","p","l","e",".","c","o","m">>
        /\ th[t].raw.port = 443

\* buildClientConfigMap has returned to t
BuildDone(t) == th[t].op = "buildClientConfigMap" /\ th[t].todo = <<>>

\* what a resolved host is
KindOfHost(h) ==
    IF h = S_loopback
    THEN HostOf(h, "v4", S_loopback \o <<"/", "3", "2">>)
    ELSE IF \E x \in EndpointHosts : x.text = h
    THEN CHOOSE x \in EndpointHosts : x.text = h
    ELSE HostOf(h, "name", <<>>)

\* C30 (as stated): the tun inbound of the client document has the key
\* route_exclude_address exactly when the resolved host is an IP address, and
\* then it holds one entry: the host followed by /32 (IPv4) or /128 (IPv6).
C30_RouteExcludeHost ==
    \A t \in Callers :
        BuildDone(t) =>
            LET tun == th[t].raw.tun
                h == th[t].raw.server
            IN  /\ "route_exclude_address" \in DOMAIN tun
                       <=> KindOfHost(h).is \in {"v4", "v6"}
                /\ KindOfHost(h).is = "v4" =>
                       tun["route_exclude_address"] = <<h \o <<"/", "3", "2">>>>
                /\ KindOfHost(h).is = "v6" =>
                       tun["route_exclude_address"] = <<h \o <<"/", "1", "2", "8">>>>

\* C30 (amended): the tun inbound of the client document has the key
\* route_exclude_address exactly when the resolved host is an IP address, and
\* then it holds one entry: the address in canonical text (an IPv6 address in
\* lower case with its zero groups compressed, an IPv4-mapped IPv6 address as
\* the IPv4 address) followed by /32 for an IPv4 or IPv4-mapped address and by
\* /128 for any other IPv6 address.
C30_RouteExcludeAddress ==
    \A t \in Callers :
        BuildDone(t) =>
            LET tun == th[t].raw.tun
                h == th[t].raw.server
            IN  /\ "route_exclude_address" \in DOMAIN tun
                       <=> KindOfHost(h).is \in {"v4", "v6"}
                /\ KindOfHost(h).is \in {"v4", "v6"} =>
                       tun["route_exclude_address"] = <<KindOfHost(h).cidr>>

\* C30 (witness): the document for the endpoint
\* "[2001:DB8:0:0:0:0:0:1]:8443" excludes 2001:db8::1/128.
C30_Witness ==
    \E t \in Callers :
        /\ BuildDone(t)
        /\ th[t].arg.endpoint.bracket
        /\ th[t].arg.endpoint.port.number = 8443
        /\ th[t].raw.server_port = 8443
        /\ th[t].raw.tun["route_exclude_address"]
               = <<<<"2","0","0","1",":","d","b","8",":",":","1","/","1","2","8">>>>


\* the callers for which buildClientConfigMap has returned its document
DocumentBuilt(t) ==
    \/ BuildDone(t)
    \/ th[t].op = "buildClientShareURI" /\ Len(th[t].todo) < 2

\* the tags of the outbounds of one type in a client document
TagsOf(d, type) == {o.tag : o \in {x \in Range(d.outbounds) : x.type = type}}

\* C31: every generated client document has the same routing policy, in the
\* same order: the first rule hijacks DNS, the second and last sends the fixed
\* list of loopback, private, link-local (and multicast) networks to the
\* direct outbound, and the final route is the tunnel outbound; the only DNS
\* server is the remote resolver 1.1.1.1 reached through the tunnel outbound,
\* and it is the DNS final server and the default domain resolver.
C31_RoutingPolicy ==
    \A t \in Callers :
        DocumentBuilt(t) =>
            LET d == th[t].raw
            IN  /\ Len(d.route.rules) = 2
                /\ d.route.rules[1] = [protocol |-> "dns", action |-> "hijack-dns"]
                /\ DOMAIN d.route.rules[2] = {"ip_cidr", "outbound"}
                /\ d.route.rules[2].ip_cidr =
                       <<"127.0.0.0/8", "10.0.0.0/8", "172.16.0.0/12",
                         "192.168.0.0/16", "169.254.0.0/16", "224.0.0.0/4",
                         "::1/128", "fc00::/7", "fe80::/10">>
                /\ TagsOf(d, "direct") = {d.route.rules[2].outbound}
                /\ TagsOf(d, "vless") = {d.route.final}
                /\ Len(d.dns.servers) = 1
                /\ d.dns.servers[1].server = "1.1.1.1"
                /\ d.dns.servers[1].detour = d.route.final
                /\ d.dns.final = d.dns.servers[1].tag
                /\ d.route.default_domain_resolver.server = d.dns.servers[1].tag

\* a document for an IP endpoint (so with an excluded route) and a TUN
\* address list of two items has been generated
C31_Witness ==
    \E t \in Callers :
        /\ DocumentBuilt(t)
        /\ "route_exclude_address" \in DOMAIN th[t].raw.tun
        /\ Len(th[t].arg.tun) = 1
        /\ th[t].arg.cfg.WebsocketPath # S_vpn_path


\* the callers for which buildClientShareURI has returned, after the
\* document of the same Config and client was generated
ShareDone(t) == th[t].op = "buildClientShareURI" /\ th[t].todo = <<>>

\* net/url unescape(s, mode): the text that percent-escaped text stands for
RECURSIVE unescape(_, _)
unescape(s, mode) ==
    IF s = <<>> THEN <<>>
    ELSE IF Head(s) = "%" /\ Len(s) >= 3
    THEN <<CHOOSE c \in DOMAIN PercentCodes : PercentCodes[c] = SubSeq(s, 1, 3)>>
         \o unescape(SubSeq(s, 4, Len(s)), mode)
    ELSE IF Head(s) = "+" /\ mode = "encodeQueryComponent"
    THEN <<" ">> \o unescape(Tail(s), mode)
    ELSE <<Head(s)>> \o unescape(Tail(s), mode)

\* net/url stripPort(hostport) and portOnly(hostport), which are
\* URL.Hostname() and URL.Port()
stripPort(hostport) ==
    IF IndexByte(hostport, ":") = 0 THEN hostport
    ELSE IF IndexByte(hostport, "]") > 0
    THEN LET h == SubSeq(hostport, 1, IndexByte(hostport, "]") - 1)
         IN  IF HasPrefix(h, <<"[">>) THEN Tail(h) ELSE h
    ELSE SubSeq(hostport, 1, IndexByte(hostport, ":") - 1)

portOnly(hostport) ==
    LET ends == {i \in 1..(Len(hostport) - 1) :
                    hostport[i] = "]" /\ hostport[i + 1] = ":"}
    IN  IF IndexByte(hostport, ":") = 0 THEN <<>>
        ELSE IF ends # {}
        THEN From(hostport, (CHOOSE i \in ends : \A j \in ends : i <= j) + 1)
        ELSE IF IndexByte(hostport, "]") > 0 THEN <<>>
        ELSE From(hostport, IndexByte(hostport, ":"))

\* url.Values.Get(key) of a raw query: the value of the first pair with
\* the key, the empty string when there is none
QueryGet(rawQuery, key) ==
    LET pairs == Split(rawQuery, "&")
        with == {i \in DOMAIN pairs :
                    /\ IndexByte(pairs[i], "=") > 0
                    /\ unescape(SubSeq(pairs[i], 1, IndexByte(pairs[i], "=") - 1),
                                "encodeQueryComponent") = key}
    IN  IF with = {} THEN <<>>
        ELSE LET p == pairs[CHOOSE i \in with : \A j \in with : i <= j]
             IN  unescape(From(p, IndexByte(p, "=")), "encodeQueryComponent")

\* what url.Parse reads in "scheme://user@host?query#fragment"
ParseURI(text) ==
    LET rest == From(text, IndexByte(text, ":") + 2)
        hash == IndexByte(rest, "#")
        body == IF hash = 0 THEN rest ELSE SubSeq(rest, 1, hash - 1)
        q == IndexByte(body, "?")
        authority == IF q = 0 THEN body ELSE SubSeq(body, 1, q - 1)
        at == LastIndexByte(authority, "@")
    IN  [scheme |-> SubSeq(text, 1, IndexByte(text, ":") - 1),
         user |-> unescape(SubSeq(authority, 1, at - 1), "encodeUserPassword"),
         hostname |-> unescape(stripPort(From(authority, at)), "encodeHost"),
         port |-> portOnly(From(authority, at)),
         rawQuery |-> IF q = 0 THEN <<>> ELSE From(body, q),
         fragment |-> IF hash = 0 THEN <<>>
                      ELSE unescape(From(rest, hash), "encodeFragment")]

\* C32: for every Config and client, the share URI encodes the same
\* connection information as the client document: the same secret identity,
\* the same host and port, the same websocket path, the same TLS server name
\* and the same insecure-TLS setting.
C32_ShareURISameInformation ==
    \A t \in Callers :
        ShareDone(t) =>
            LET u == ParseURI(th[t].list)
                d == th[t].raw
            IN  /\ u.user = Itoa(d.uuid)
                /\ u.hostname = d.server
                /\ u.port = Itoa(d.server_port)
                /\ QueryGet(u.rawQuery, S_path) = d.transport.path
                /\ QueryGet(u.rawQuery, S_sni) = d.tls.server_name
                /\ (QueryGet(u.rawQuery, S_allowInsecure) = <<"1">>) = d.tls.insecure


\* the texts of the items that have one, in the order of the list
RECURSIVE TextsOf(_)
TextsOf(items) ==
    IF items = <<>> THEN <<>>
    ELSE (IF Head(items).text = <<>> THEN <<>> ELSE <<Head(items).text>>)
         \o TextsOf(Tail(items))

\* C33: the address list of the TUN inbound of a generated client document is
\* the configured comma-separated list, each item trimmed, the empty items
\* dropped, in the configured order; when that leaves nothing it is the one
\* default 172.19.0.1/30; the legacy key inet4_address is never generated.
C33_TunAddressList ==
    \A t \in Callers :
        DocumentBuilt(t) =>
            /\ th[t].raw.tun["address"] =
                   IF TextsOf(th[t].arg.tun) = <<>>
                   THEN << <<"1","7","2",".","1","9",".","0",".","1","/","3","0">> >>
                   ELSE TextsOf(th[t].arg.tun)
            /\ "inet4_address" \notin DOMAIN th[t].raw.tun

\* a document has been generated for a list of two items with white space
\* around them, the first of them empty
C33_Witness ==
    \E t \in Callers :
        /\ DocumentBuilt(t)
        /\ Len(th[t].arg.tun) = 2
        /\ th[t].arg.tun[1].text = <<>> /\ th[t].arg.tun[2].text # <<>>
        /\ th[t].arg.tun[2].before # <<>> /\ th[t].arg.tun[2].after # <<>>
        /\ Len(th[t].raw.tun["address"]) = 1


\* the server document doc lists exactly one {name, uuid} entry per record of
\* the store of the files f
ListsStore(doc, f) ==
    /\ doc.kind = "server"
    /\ Len(doc.users) = Cardinality(DOMAIN Store(f))
    /\ \A id \in DOMAIN Store(f) :
          \E i \in DOMAIN doc.users :
              doc.users[i] = [name |-> Store(f)[id].Name,
                              uuid |-> Store(f)[id].UUID]

\* C34: at the end of every public operation, if the data plane is running,
\* the server document its process was spawned with lists exactly the users
\* of the current persisted client map.
C34_RunningOnCurrentStore ==
    \A t \in Callers :
        (AtUnlock(t) /\ interfaceRunningLocked) =>
            ListsStore(procs[serverCmd].doc, fs)


\* the processes that run and that no stop has sent the kill
Unkilled == {p \in DOMAIN procs : procs[p].state = "alive" /\ procs[p].killed = "no"}

\* C35: every process ever spawned is, at every moment, the one the handle
\* refers to, or one a stop has sent the kill, or one that has exited; so
\* there are never two live processes that were not sent the kill.
C35_NoOrphan ==
    /\ \A p \in DOMAIN procs :
          \/ serverCmd = p
          \/ procs[p].killed # "no"
          \/ procs[p].state = "exited"
    /\ Cardinality(Unkilled) <= 1

\* a second process runs under the handle while the first, sent the kill
\* when it was alive, has not exited yet
C35_Witness ==
    \E p \in DOMAIN procs, q \in DOMAIN procs :
        /\ p # q
        /\ procs[p].state = "alive" /\ procs[p].killed = "alive"
        /\ serverCmd = q /\ procs[q].state = "alive"


\* the handle refers to process p, which has exited (by itself: a stop that
\* signals a process clears the handle in the same critical section)
TrackedExited(p) ==
    /\ p \in DOMAIN procs
    /\ serverCmd = p
    /\ procs[p].state = "exited"

\* C36: when the process the handle refers to exits by itself then, under
\* fair scheduling, the handle eventually no longer refers to it: the reaper
\* (or a stop) has cleared it, and the handle is nil (GetStatus reports
\* running false) or refers to a process started later.
C36_HandleCleared ==
    \A p \in ProcIDs :
        TrackedExited(p) ~> (serverCmd = 0 \/ serverCmd > p)

\* the reaper of a process that exited by itself has found the handle to be
\* its own and has cleared it
C36_Witness ==
    \E p \in DOMAIN procs :
        /\ ReaperDone(p)
        /\ procs[p].found = p
        /\ procs[p].killed = "no"
        /\ serverCmd = 0


\* the step in which GetStatus reads the running flag as true, or in which a
\* successful StartInterface returns
ReportsRunning(t) ==
    \/ Status(t) /\ th'[t].running
    \/ Ret(t) /\ th[t].op = "StartInterface" /\ th[t].err = "none"

\* C37 (as claimed): whenever GetStatus reports running=true or StartInterface
\* returns success, the process the handle refers to has not yet exited.
C37_RunningMeansAlive ==
    [][\A t \in Callers :
          ReportsRunning(t) =>
              /\ serverCmd \in DOMAIN procs
              /\ procs[serverCmd].state = "alive"]_vars

\* C37 (amended): whenever GetStatus reports running=true or StartInterface
\* returns success, the handle refers to a process that was spawned, that no
\* stop has signalled and whose reaper has not yet held the mutex; the
\* process itself may have exited already.
C37_RunningMeansUnreaped ==
    [][\A t \in Callers :
          ReportsRunning(t) =>
              /\ serverCmd \in DOMAIN procs
              /\ procs[serverCmd].killed = "no"
              /\ procs[serverCmd].reaper = "wait"]_vars

\* GetStatus is about to read the running flag while the process of the
\* handle has exited and its reaper waits for the mutex
C37_Witness ==
    \E t \in Callers :
        /\ th[t].op = "GetStatus"
        /\ At(t, "status")
        /\ serverCmd \in DOMAIN procs
        /\ ReaperWaits(serverCmd)


\* C38: whenever loadClientsLocked succeeds it returns a map CreateClient
\* can insert into, whatever clients.json held (the literal null and the
\* empty object included): no InitState and no CreateClient crashes on a
\* store that loaded successfully.
C38_LoadedMapAcceptsInsert ==
    /\ \A t \in Callers : th[t].err # "panic"
    /\ last.err # "panic"
    /\ \A t \in Callers :
          (th[t].held /\ th[t].err = "none" /\ th[t].todo # <<>>
           /\ Head(th[t].todo) \in {"create", "bootstrap"}) => ~th[t].isNil


\* the step of the second of two loads of t: the first has returned its map
\* in th[t].clients
SecondLoad(t) ==
    /\ th[t].op = "loadClientsLocked twice"
    /\ th[t].todo = <<"load">>
    /\ Load(t)

\* C39: healing converges in one step: a load that follows a successful load
\* backfills nothing, writes nothing and returns the same map, whatever
\* clients.json held at first (records with blank or white-space fields and
\* a record under the empty string as its key included).
C39_HealOnce ==
    [][\A t \in Callers :
          SecondLoad(t) =>
              /\ th'[t].err = "none"
              /\ th'[t].clients = th[t].clients
              /\ th'[t].job = NoJob
              /\ fs' = fs
              /\ rnd' = rnd]_vars


\* the certificate and the key in the files f are those of one key pair
MatchingPair(f) ==
    /\ Content(f, TLSCertPath).kind = "cert"
    /\ Content(f, TLSKeyPath).kind = "key"
    /\ Content(f, TLSCertPath).pair = Content(f, TLSKeyPath).pair

====
